---- MODULE Spec2Model ----
(***************************************************************************)
(* Team registration of the Alhuda SPARK site: the registerTeam handler    *)
(* with Cloudinary uploads (server/controllers/teamRegistrationController) *)
(* and its local-disk variant, over a Team repository and an Upload Store. *)
(*                                                                         *)
(* A handler is an async function: it runs atomically between two awaits   *)
(* that touch shared state.  The repository is shared by all requests, so  *)
(* the handler is split at Team.findOne, team.save and the two sendMail    *)
(* awaits.  The images of a request carry the request's own team id, so    *)
(* the uploads and deletes of one roster build commute with every other    *)
(* request and the roster build is one step.                               *)
(*                                                                         *)
(* Beside it: the player cards of the registration page script (addPlayer, *)
(* removePlayer, resetForm), and the sponsorship endpoints over a Sponsor  *)
(* repository: registerSponsor, createZeffyPaymentSession (split at its    *)
(* first save, the gateway call and its second save) and the Zeffy webhook *)
(* with its signature check.                                               *)
(***************************************************************************)
EXTENDS Integers, Sequences, FiniteSets, TLC

VARIABLES
    teams,        \* Team repository: the persisted Team documents
    cloud,        \* Upload Store: public ids of the images held by Cloudinary
    disk,         \* Upload Store of the local-disk variant: paths of the files
    pc,           \* per request slot: position of registerTeam
    req,          \* per request slot: the request being handled (body, files)
    playersData,  \* per request slot: result of processPlayersDataWithCloudinary
    team,         \* per request slot: the Team document under construction
    resp,         \* per request slot: the response sent by res.json
    log,          \* per request slot: what the handler did (history)
    calls,        \* calls of the pure functions: arguments and result of each
    playerCount,      \* registration page: the script's player counter
    playersContainer, \* registration page: the player cards, in document order
    created,          \* registration page: number of cards created so far
    errorModalText,   \* registration page: the text of the error modal
    sponsors,     \* Sponsor repository: the persisted Sponsor documents
    sreq,         \* the sponsor request being handled: position, body, response
    hook          \* the last webhook delivery and the response it got

\* The state of the registration page and of the sponsorship endpoints.
pageVars == <<playerCount, playersContainer, created, errorModalText>>
sponsorVars == <<sponsors, sreq, hook>>

teamVars == <<teams, cloud, disk, pc, req, playersData, team, resp, log>>

\* What the team registration handlers never touch.
aside == <<calls, pageVars, sponsorVars>>

vars == <<teams, cloud, disk, pc, req, playersData, team, resp, log, calls,
          pageVars, sponsorVars>>

----------------------------------------------------------------------------
(* Bounds of the model *)

\* Team documents the repository may hold.
MaxTeams == 2

Slots == {"r1", "r2"}
SeqSlot == "r1"

----------------------------------------------------------------------------
(* Program constants *)

MIN_PLAYERS == 5
MAX_PLAYERS == 10
DefaultFee == 350

Null == <<>>
Blank == " "

----------------------------------------------------------------------------
(* Tier Policy and Age Calculator (models/Team) *)

Tiers == {"elementary", "middle", "high_school"}

\* Tier Policy: eligible age range of a tier.
TierAgeRange(tier) ==
    CASE tier = "elementary"  -> [minAge |-> 8,  maxAge |-> 11]
      [] tier = "middle"      -> [minAge |-> 12, maxAge |-> 14]
      [] tier = "high_school" -> [minAge |-> 15, maxAge |-> 18]

\* Team.getRegistrationFees(): fee of each known tier.
getRegistrationFees ==
    [elementary |-> 250, middle |-> 300, high_school |-> 350]

\* The registration moment (the tournament's opening day).
Today == <<2025, 11, 1>>

\* new Date(dateOfBirth): a well-formed date string parses to its calendar
\* date, anything else to Invalid Date.
InvalidDate == <<0, 0, 0>>
NaN == -1

\* A parser that accepts no date string: C14 rests on new Date(dateOfBirth).
ParseNoDate(s) == InvalidDate

ParseDate(s) ==
    IF Len(s) = 3 /\ s[2] \in 1..12 /\ s[3] \in 1..31 THEN s ELSE InvalidDate

\* Age Calculator: whole years between dateOfBirth and asOf, one less when
\* asOf's month/day precedes the birthday.
calculateAge(dob, asOf) ==
    IF dob = InvalidDate THEN NaN
    ELSE LET years == asOf[1] - dob[1]
             before == \/ asOf[2] < dob[2]
                       \/ asOf[2] = dob[2] /\ asOf[3] < dob[3]
         IN  IF before THEN years - 1 ELSE years

\* team.calculatePlayerAges(): fills every player's ageAtRegistration.
calculatePlayerAges(players) ==
    [i \in 1..Len(players) |->
        [players[i] EXCEPT !.ageAtRegistration =
            calculateAge(players[i].dateOfBirth, Today)]]

\* team.validatePlayerAgesForTier(): every age within the tier's range; a
\* tier without a policy validates nobody (fail closed).
validatePlayerAgesForTier(t) ==
    /\ t.tier \in Tiers
    /\ \A i \in 1..Len(t.players) :
          /\ t.players[i].ageAtRegistration >= TierAgeRange(t.tier).minAge
          /\ t.players[i].ageAtRegistration <= TierAgeRange(t.tier).maxAge

----------------------------------------------------------------------------
(* Requests: req.body and req.files as the upload middleware hands them over *)

PlayerNames ==
    <<"Ali", "Bilal", "Dawud", "Hamza", "Idris", "Jamal",
      "Karim", "Musa", "Omar", "Yusuf", "Zayd">>

\* A date of birth that makes the player `age` years old on Today: the
\* birthday is today (turned) or tomorrow (not turned yet).
DobTurned(age) == <<Today[1] - age, Today[2], Today[3]>>
DobNotYet(age) == <<Today[1] - age - 1, Today[2], Today[3] + 1>>

\* Ages used by the generated rosters: the range of the declared tier, and
\* the high-school range for a tier that has none.
RosterRange(tier) ==
    IF tier \in Tiers THEN TierAgeRange(tier) ELSE TierAgeRange("high_school")

OddKinds == {"noName", "noDob", "noPhoto", "young", "old", "padded"}

\* players[i] of a roster of n groups in which group `odd` (0: none) deviates
\* in `kind` from a complete, eligible player; besides OddKinds: "badDob", a
\* date of birth that is no date, and "absent", no field of players[odd-1]
\* in the body (body.players[odd-1] is undefined).
PlayerGroup(tier, i, odd, kind) ==
    LET r == RosterRange(tier)
        isOdd(k) == i = odd /\ kind = k
    IN  [present     |-> ~isOdd("absent"),
         playerName  |-> IF isOdd("noName") THEN <<>>
                         ELSE IF isOdd("padded")
                              THEN <<Blank, PlayerNames[i], Blank>>
                              ELSE <<PlayerNames[i]>>,
         dateOfBirth |-> IF isOdd("noDob") THEN <<>>
                         ELSE IF isOdd("badDob") THEN <<Today[1] - r.minAge, 13, 1>>
                         ELSE IF isOdd("young") THEN DobNotYet(r.minAge - 1)
                         ELSE IF isOdd("old") THEN DobTurned(r.maxAge + 1)
                         ELSE IF i % 2 = 1 THEN DobTurned(r.minAge)
                         ELSE DobNotYet(r.maxAge)]

Roster(tier, n, odd, kind) ==
    [i \in 1..n |-> PlayerGroup(tier, i, odd, kind)]

\* The uploaded files, by the player position their field name carries
\* (players[i-1][idPhoto]).
Photos(n, odd, kind, photos) ==
    IF photos = "none" THEN {}
    ELSE {i \in 1..n : ~(i = odd /\ kind \in {"noPhoto", "absent"})}

Request(email, name, tier, fields, hasPlayers, n, odd, kind, photos) ==
    [teamName         |-> name,
     coachEmail       |-> email,
     tier             |-> tier,
     required         |-> fields # "noRequired",
     emergencyContact |-> fields # "noEmergency",
     paymentMethod    |-> "check",
     hasPlayers       |-> hasPlayers,
     players          |-> IF hasPlayers THEN Roster(tier, n, odd, kind) ELSE <<>>,
     files            |-> Photos(n, odd, kind, photos)]

RosterSizes == {0, MIN_PLAYERS - 1, MIN_PLAYERS, MAX_PLAYERS, MAX_PLAYERS + 1}
OddPositions == {1, 3, MIN_PLAYERS}

\* Rosters submitted for a known tier: every size, with and without photos,
\* one deviating player, and a body without any players[...] field.
RosterRequests(tier) ==
    {Request("coach@hoops.org", "Falcons", tier, "ok", TRUE, n, 0, "none", "all") :
        n \in RosterSizes}
    \cup {Request("coach@hoops.org", "Falcons", tier, "ok", TRUE,
                  MIN_PLAYERS, 0, "none", "none")}
    \cup {Request("coach@hoops.org", "Falcons", tier, "ok", TRUE,
                  MIN_PLAYERS, k, kd, "all") : k \in OddPositions, kd \in OddKinds}
    \cup {Request("coach@hoops.org", "Falcons", tier, "ok", FALSE, 0, 0, "none", "all")}

\* Complete rosters with the other inputs varied: the coach's email in
\* another case, another team name, an unknown tier, a missing field.
OtherRequests ==
    {Request("Coach@Hoops.org", "Falcons", t, "ok", TRUE, MIN_PLAYERS, 0, "none", "all") :
        t \in {"middle", "high_school"}}
    \cup {Request("coach@hoops.org", "Hawks", "middle", "ok", TRUE,
                  MIN_PLAYERS, 0, "none", "all")}
    \cup {Request("coach@hoops.org", "Falcons", "varsity", "ok", TRUE,
                  MIN_PLAYERS, odd, "young", "all") : odd \in {0, 1}}
    \cup {Request("coach@hoops.org", "Falcons", "high_school", f, TRUE,
                  MIN_PLAYERS, 0, "none", "all") : f \in {"noRequired", "noEmergency"}}

Requests == RosterRequests("middle") \cup RosterRequests("high_school") \cup OtherRequests

NoRequest == Request("", "", "", "ok", FALSE, 0, 0, "none", "none")

\* coachEmail.toLowerCase()
toLowerCase(email) ==
    CASE email = "Coach@Hoops.org" -> "coach@hoops.org"
      [] OTHER -> email

\* playerName.trim(): leading and trailing blanks removed.
RECURSIVE trimStart(_)
trimStart(s) ==
    IF s # <<>> /\ Head(s) = Blank THEN trimStart(Tail(s)) ELSE s

RECURSIVE trimEnd(_)
trimEnd(s) ==
    IF s # <<>> /\ s[Len(s)] = Blank THEN trimEnd(SubSeq(s, 1, Len(s) - 1)) ELSE s

trim(s) == trimEnd(trimStart(s))

----------------------------------------------------------------------------
(* Responses *)

NoError == [msg |-> "", player |-> 0]
Error(msg) == [msg |-> msg, player |-> 0]
PlayerError(i, msg) == [msg |-> msg, player |-> i]

NoResponse == [status |-> 0,   success |-> FALSE, error |-> NoError, teamId |-> 0]
Failure(status, err) ==
    [status |-> status, success |-> FALSE, error |-> err, teamId |-> 0]
Success(teamId) ==
    [status |-> 200, success |-> TRUE, error |-> NoError, teamId |-> teamId]

NoTeam ==
    [teamId |-> 0, teamName |-> "", coachEmail |-> "", tier |-> "",
     players |-> <<>>, registrationFee |-> 0, paymentMethod |-> "",
     paymentStatus |-> "", registrationStatus |-> ""]

NoPlayersData ==
    [success |-> FALSE, error |-> NoError, players |-> <<>>,
     uploadedImages |-> <<>>, rollback |-> <<>>, stored |-> <<>>]

\* What a handler has done so far: images it stored, images it passed to a
\* delete call and those whose delete call rejected, what Team.findOne
\* answered, the fee it computed, whether it built the Team, computed the
\* ages and saved, and how the two emails ended.
NoLog ==
    [stored |-> {}, deleteCalled |-> {}, deleteFailed |-> {},
     unlinking |-> {}, existingTeam |-> "unchecked", agesComputed |-> FALSE,
     registrationFee |-> 0, constructed |-> FALSE, saved |-> FALSE,
     coachMail |-> "none", adminMail |-> "none"]

Range(s) == {s[i] : i \in 1..Len(s)}

----------------------------------------------------------------------------
(* Upload Store (cloudinaryController) *)

\* public_id of the image uploaded for player i of team teamId: the folder
\* alhuda_spark/<team>_<teamId>/<player>_<i> makes it unique to the pair.
PublicId(teamId, i) == <<teamId, i>>

\* A cleanup that stops at the first delete call that rejects: C19 rests on
\* every delete call having its own catch.
cleanupUntilRejected(store, publicIds, failing) ==
    LET firstRejected ==
            IF \E i \in 1..Len(publicIds) : publicIds[i] \in failing
            THEN CHOOSE i \in 1..Len(publicIds) :
                    /\ publicIds[i] \in failing
                    /\ \A j \in 1..(i - 1) : publicIds[j] \notin failing
            ELSE Len(publicIds) + 1
    IN  store \ {publicIds[i] : i \in 1..(firstRejected - 1)}

\* A cleanup that deletes nothing: C2 rests on cleanupCloudinaryImages.
cleanupNothing(store, publicIds, failing) == store

\* cleanupCloudinaryImages(publicIds): every id is deleted from the store
\* except those whose delete call rejects (logged, not rethrown).
cleanupCloudinaryImages(store, publicIds, failing) ==
    store \ (Range(publicIds) \ failing)

----------------------------------------------------------------------------
(* Player Roster Builder *)

\* No tier requires photos: C8 rests on requireIds.
requireIdsNever(body) == FALSE

\* requireIds: only the high-school tier must upload identity photos.
requireIdsOf(body) == body.tier = "high_school"

\* players.unshift({...}): C6's player order rests on push.
unshift(array, element) == <<element>> \o array

\* players.push({...})
push(array, element) == Append(array, element)

\* The while loop of processPlayersDataWithCloudinary from index i on.
\* acc carries players and uploadedImages; the upload of player uploadFailAt
\* rejects.
RECURSIVE PlayersLoop(_, _, _, _, _, _)
PlayersLoop(body, files, teamId, uploadFailAt, i, acc) ==
    IF ~(i <= Len(body.players) /\ body.players[i].present)
    THEN [acc EXCEPT !.success = TRUE]
    ELSE
      LET playerName  == body.players[i].playerName
          dateOfBirth == body.players[i].dateOfBirth
          requireIds  == requireIdsOf(body)
          playerFile  == i \in files
      IN  IF playerName = <<>> \/ dateOfBirth = <<>>
          THEN [acc EXCEPT !.error =
                    PlayerError(i, "Name and date of birth are required")]
          ELSE IF requireIds /\ ~playerFile
          THEN [acc EXCEPT !.error = PlayerError(i, "ID photo is required")]
          ELSE IF playerFile /\ uploadFailAt = i
          THEN [acc EXCEPT !.error = PlayerError(i, "Failed to upload ID photo")]
          ELSE
            LET player == [playerName        |-> trim(playerName),
                           dateOfBirth       |-> ParseDate(dateOfBirth),
                           idPhotoUrl        |-> IF playerFile
                                                 THEN PublicId(teamId, i) ELSE Null,
                           idPhotoPublicId   |-> IF playerFile
                                                 THEN PublicId(teamId, i) ELSE Null,
                           ageAtRegistration |-> 0]
            IN  PlayersLoop(body, files, teamId, uploadFailAt, i + 1,
                    [acc EXCEPT
                        !.players = push(@, player),
                        !.uploadedImages =
                            IF playerFile THEN push(@, PublicId(teamId, i)) ELSE @])

\* The roster build without its size checks: C1 rests on them.
processPlayersOfAnySize(body, files, teamId, uploadFailAt) ==
    IF ~body.hasPlayers
    THEN [NoPlayersData EXCEPT !.error = Error("Error processing player data")]
    ELSE
      LET loop == PlayersLoop(body, files, teamId, uploadFailAt, 1, NoPlayersData)
      IN  IF ~loop.success
          THEN [NoPlayersData EXCEPT !.error = loop.error,
                                     !.rollback = loop.uploadedImages,
                                     !.stored = loop.uploadedImages]
          ELSE [loop EXCEPT !.stored = loop.uploadedImages]

\* processPlayersDataWithCloudinary(body, files, teamId).  The result names
\* the images stored during the build (stored) and those handed to
\* cleanupCloudinaryImages before an error is returned (rollback); a failure
\* result carries no uploadedImages.
processPlayersDataWithCloudinary(body, files, teamId, uploadFailAt) ==
    IF ~body.hasPlayers
    THEN \* body.players[0] on undefined throws; the catch block reports it
         [NoPlayersData EXCEPT !.error = Error("Error processing player data")]
    ELSE
      LET loop == PlayersLoop(body, files, teamId, uploadFailAt, 1, NoPlayersData)
          failed(err) ==
              [NoPlayersData EXCEPT !.error = err,
                                    !.rollback = loop.uploadedImages,
                                    !.stored = loop.uploadedImages]
      IN  IF ~loop.success THEN failed(loop.error)
          ELSE IF Len(loop.players) < MIN_PLAYERS
          THEN failed(Error("Minimum 5 player required"))
          ELSE IF Len(loop.players) > MAX_PLAYERS
          THEN failed(Error("Maximum 10 players allowed"))
          ELSE [loop EXCEPT !.stored = loop.uploadedImages]

----------------------------------------------------------------------------
(* State *)

InFlight(p) == pc[p] \notin {"idle", "done"}

TeamImages(t) ==
    {t.players[i].idPhotoPublicId : i \in 1..Len(t.players)} \ {Null}

\* Images of the store that neither a persisted Team nor a request still
\* being handled refers to.
Orphans ==
    cloud \ (UNION {TeamImages(t) : t \in teams}
             \cup UNION {Range(playersData[p].uploadedImages) : p \in {q \in Slots : InFlight(q)}})

\* Team.generateTeamId(): an identifier no team, request or stored image
\* carries yet.
UsedIds ==
    {t.teamId : t \in teams}
    \cup {team[p].teamId : p \in {q \in Slots : InFlight(q)}}
    \cup {img[1] : img \in cloud}
    \cup {file[2] : file \in disk}

generateTeamId ==
    CHOOSE id \in 1..(Cardinality(UsedIds) + 1) :
        /\ id \notin UsedIds
        /\ \A other \in 1..(id - 1) : other \in UsedIds

\* The delete calls that reject during one cleanup: none, or the one for the
\* first image (one leftover image in the store at a time).
DeleteFaults(publicIds) ==
    IF publicIds # <<>> /\ Orphans = {}
    THEN {{}, {publicIds[1]}}
    ELSE {{}}

\* The uploads that may reject during one roster build: none, or the first
\* or the last file of the request.
UploadFaults(files) ==
    {0} \cup {i \in files : \A j \in files : i <= j}
        \cup {i \in files : \A j \in files : i >= j}

\* res.status(..).json(..): the handler ends with a failure response.
Respond(p, response) ==
    /\ resp' = [resp EXCEPT ![p] = response]
    /\ pc' = [pc EXCEPT ![p] = "done"]

----------------------------------------------------------------------------
(* registerTeam, Cloudinary variant *)

\* Lines 21-74: field validation, generateTeamId and the roster build.
registerTeamBuild(p, r) ==
    /\ UNCHANGED aside
    /\ pc[p] = "idle"
    /\ Cardinality(teams) + Cardinality({q \in Slots : InFlight(q)}) < MaxTeams
    /\ req' = [req EXCEPT ![p] = r]
    /\ IF ~r.required
       THEN /\ Respond(p, Failure(400, Error("Missing required fields")))
            /\ playersData' = [playersData EXCEPT ![p] = NoPlayersData]
            /\ team' = [team EXCEPT ![p] = NoTeam]
            /\ log' = [log EXCEPT ![p] = NoLog]
            /\ UNCHANGED <<teams, cloud, disk>>
       ELSE IF ~r.emergencyContact
       THEN /\ Respond(p, Failure(400, Error("Emergency contact information is required")))
            /\ playersData' = [playersData EXCEPT ![p] = NoPlayersData]
            /\ team' = [team EXCEPT ![p] = NoTeam]
            /\ log' = [log EXCEPT ![p] = NoLog]
            /\ UNCHANGED <<teams, cloud, disk>>
       ELSE
         \E uploadFailAt \in UploadFaults(r.files) :
           LET teamId == generateTeamId
               data   == processPlayersDataWithCloudinary(r, r.files, teamId, uploadFailAt)
           IN  \E failing \in DeleteFaults(data.rollback) :
                 /\ cloud' = cleanupCloudinaryImages(
                                 cloud \cup Range(data.stored), data.rollback, failing)
                 /\ playersData' = [playersData EXCEPT ![p] = data]
                 /\ log' = [log EXCEPT ![p] =
                               [NoLog EXCEPT !.stored = Range(data.stored),
                                             !.deleteCalled = Range(data.rollback),
                                             !.deleteFailed = failing]]
                 /\ team' = [team EXCEPT ![p] = [NoTeam EXCEPT !.teamId = teamId]]
                 /\ IF ~data.success
                    THEN Respond(p, Failure(400, data.error))
                    ELSE /\ pc' = [pc EXCEPT ![p] = "findOne"]
                         /\ resp' = [resp EXCEPT ![p] = NoResponse]
                 /\ UNCHANGED <<teams, disk>>

NonTerminal == {"pending", "approved", "waitlisted"}

\* A lookup that overlooks pending registrations: C5 rests on findOne.
findOneSettled(coachEmail, teamName) ==
    {t \in teams : /\ t.coachEmail = coachEmail
                   /\ t.teamName = teamName
                   /\ t.registrationStatus \in {"approved", "waitlisted"}}

\* Team.findOne({coachEmail, teamName, registrationStatus: {$in: [...]}})
findOne(coachEmail, teamName) ==
    {t \in teams : /\ t.coachEmail = coachEmail
                   /\ t.teamName = teamName
                   /\ t.registrationStatus \in NonTerminal}

\* fees[tier] || 350
registrationFeeOf(tier) ==
    IF tier \in DOMAIN getRegistrationFees THEN getRegistrationFees[tier] ELSE DefaultFee

\* new Team({...}) followed by team.calculatePlayerAges(); the schema
\* defaults registrationStatus to pending.
NewTeam(body, teamId, players) ==
    [teamId             |-> teamId,
     teamName           |-> body.teamName,
     coachEmail         |-> toLowerCase(body.coachEmail),
     tier               |-> body.tier,
     players            |-> calculatePlayerAges(players),
     registrationFee    |-> registrationFeeOf(body.tier),
     paymentMethod      |-> body.paymentMethod,
     paymentStatus      |-> "pending",
     registrationStatus |-> "pending"]

\* An age check that lets every roster through: C4 rests on the check.
agesUnchecked(built) == TRUE

\* if (!team.validatePlayerAgesForTier()): the age check of line 124.
agesWithinTier(built) == validatePlayerAgesForTier(built)

\* Lines 76-135: the duplicate check answered by the repository, then the
\* Team is built and its ages validated, and team.save() is issued.
registerTeamFindOne(p) ==
    /\ UNCHANGED aside
    /\ pc[p] = "findOne"
    /\ LET body           == req[p]
           uploadedImages == playersData[p].uploadedImages
           existingTeam   == findOne(toLowerCase(body.coachEmail), body.teamName)
           built          == NewTeam(body, team[p].teamId, playersData[p].players)
       IN  IF existingTeam # {}
           THEN \E failing \in DeleteFaults(uploadedImages) :
                  /\ cloud' = cleanupCloudinaryImages(cloud, uploadedImages, failing)
                  /\ log' = [log EXCEPT ![p].deleteCalled = @ \cup Range(uploadedImages),
                                        ![p].deleteFailed = @ \cup failing,
                                        ![p].existingTeam = "found"]
                  /\ Respond(p, Failure(400,
                        Error("A team with this name and coach email already exists")))
                  /\ UNCHANGED <<teams, disk, req, playersData, team>>
           ELSE IF ~agesWithinTier(built)
           THEN \E failing \in DeleteFaults(uploadedImages) :
                  /\ cloud' = cleanupCloudinaryImages(cloud, uploadedImages, failing)
                  /\ log' = [log EXCEPT ![p].deleteCalled = @ \cup Range(uploadedImages),
                                        ![p].deleteFailed = @ \cup failing,
                                        ![p].existingTeam = "none",
                                        ![p].registrationFee = built.registrationFee,
                                        ![p].constructed = TRUE,
                                        ![p].agesComputed = TRUE]
                  /\ team' = [team EXCEPT ![p] = built]
                  /\ Respond(p, Failure(400,
                        Error("Player ages must be within the tier age range")))
                  /\ UNCHANGED <<teams, disk, req, playersData>>
           ELSE /\ team' = [team EXCEPT ![p] = built]
                /\ log' = [log EXCEPT ![p].existingTeam = "none",
                                      ![p].registrationFee = built.registrationFee,
                                      ![p].constructed = TRUE,
                                      ![p].agesComputed = TRUE]
                /\ pc' = [pc EXCEPT ![p] = "save"]
                /\ UNCHANGED <<teams, cloud, disk, req, playersData, resp>>

\* Lines 134-135 and 153-165: team.save() resolves and the Team is
\* persisted, or it rejects and the catch block cleans up and answers 500.
registerTeamSave(p) ==
    /\ UNCHANGED aside
    /\ pc[p] = "save"
    /\ \/ /\ teams' = teams \cup {team[p]}
          /\ log' = [log EXCEPT ![p].saved = TRUE]
          /\ pc' = [pc EXCEPT ![p] = "emailCoach"]
          /\ UNCHANGED <<cloud, disk, req, playersData, team, resp>>
       \/ \E failing \in DeleteFaults(playersData[p].uploadedImages) :
          /\ cloud' = cleanupCloudinaryImages(cloud, playersData[p].uploadedImages, failing)
          /\ log' = [log EXCEPT ![p].deleteCalled =
                                    @ \cup Range(playersData[p].uploadedImages),
                                ![p].deleteFailed = @ \cup failing]
          /\ Respond(p, Failure(500,
                Error("Failed to save registration. Please try again or contact support.")))
          /\ UNCHANGED <<teams, disk, req, playersData, team>>

\* A confirmation email whose failure is rethrown to the handler's catch
\* block: C9 rests on the email's errors being swallowed.
sendTeamConfirmationEmailOrThrow(p) ==
    /\ UNCHANGED aside
    /\ pc[p] = "emailCoach"
    /\ \E outcome \in {"sent", "failed"} :
          /\ log' = [log EXCEPT ![p].coachMail = outcome]
          /\ IF outcome = "sent"
             THEN /\ pc' = [pc EXCEPT ![p] = "emailAdmin"]
                  /\ UNCHANGED resp
             ELSE Respond(p, Failure(500,
                     Error("Failed to save registration. Please try again or contact support.")))
    /\ UNCHANGED <<teams, cloud, disk, req, playersData, team>>

\* Lines 137-138, 347-480: the coach's confirmation email is sent or fails;
\* a failure is logged and swallowed.
sendTeamConfirmationEmail(p) ==
    /\ UNCHANGED aside
    /\ pc[p] = "emailCoach"
    /\ \E outcome \in {"sent", "failed"} :
          log' = [log EXCEPT ![p].coachMail = outcome]
    /\ pc' = [pc EXCEPT ![p] = "emailAdmin"]
    /\ UNCHANGED <<teams, cloud, disk, req, playersData, team, resp>>

\* An admin notification whose failure reaches the handler's catch block,
\* which cleans up uploadedImages and answers 500: C25 rests on nothing
\* after team.save() throwing.
sendAdminNotificationEmailOrThrow(p) ==
    /\ UNCHANGED aside
    /\ pc[p] = "emailAdmin"
    /\ \/ /\ log' = [log EXCEPT ![p].adminMail = "sent"]
          /\ resp' = [resp EXCEPT ![p] = Success(team[p].teamId)]
          /\ pc' = [pc EXCEPT ![p] = "done"]
          /\ UNCHANGED cloud
       \/ \E failing \in DeleteFaults(playersData[p].uploadedImages) :
          /\ cloud' = cleanupCloudinaryImages(cloud, playersData[p].uploadedImages, failing)
          /\ log' = [log EXCEPT ![p].adminMail = "failed",
                                ![p].deleteCalled =
                                    @ \cup Range(playersData[p].uploadedImages),
                                ![p].deleteFailed = @ \cup failing]
          /\ Respond(p, Failure(500,
                Error("Failed to save registration. Please try again or contact support.")))
    /\ UNCHANGED <<teams, disk, req, playersData, team>>

\* Lines 140-151, 485-657: the admin notification is sent or fails, then the
\* success response goes out.
sendAdminNotificationEmail(p) ==
    /\ UNCHANGED aside
    /\ pc[p] = "emailAdmin"
    /\ \E outcome \in {"sent", "failed"} :
          log' = [log EXCEPT ![p].adminMail = outcome]
    /\ resp' = [resp EXCEPT ![p] = Success(team[p].teamId)]
    /\ pc' = [pc EXCEPT ![p] = "done"]
    /\ UNCHANGED <<teams, cloud, disk, req, playersData, team>>

\* The response has been written, the request's asynchronous work has
\* settled and its objects are dropped; the server is ready for the next
\* request on this slot.
EndRequest(p) ==
    /\ UNCHANGED aside
    /\ pc[p] = "done"
    /\ log[p].unlinking = {}
    /\ pc' = [pc EXCEPT ![p] = "idle"]
    /\ req' = [req EXCEPT ![p] = NoRequest]
    /\ playersData' = [playersData EXCEPT ![p] = NoPlayersData]
    /\ team' = [team EXCEPT ![p] = NoTeam]
    /\ resp' = [resp EXCEPT ![p] = NoResponse]
    /\ log' = [log EXCEPT ![p] = NoLog]
    /\ UNCHANGED <<teams, cloud, disk>>

----------------------------------------------------------------------------
(* registerTeam, local-disk variant (multer diskStorage) *)

\* limits.files of the multer configuration.
MaxFiles == 10

\* uploads/team-ids[/<teamId>]/player-<i>-<timestamp>: dir is 0 for the
\* upload directory itself and the team's id for its sub-directory.
FilePath(dir, stamp, i) == <<dir, stamp, i>>

TeamFiles(t) ==
    {t.players[i].idPhotoUrl : i \in 1..Len(t.players)} \ {Null}

\* Files on disk that neither a persisted Team nor a request still at work
\* refers to.
Leftovers ==
    disk \ (UNION {TeamFiles(t) : t \in teams}
            \cup UNION {log[p].stored :
                          p \in {q \in Slots : InFlight(q) \/ log[q].unlinking # {}}})

\* The unlink calls that reject during one cleanup: none, or the one for the
\* first file (one leftover file on disk at a time).
UnlinkFaults(paths) ==
    IF paths # <<>> /\ Leftovers = {}
    THEN {{}, {paths[1]}}
    ELSE {{}}

\* req.files.map(file => file.path), in field order
PathsOf(files, stamp) ==
    LET RECURSIVE upTo(_)
        upTo(i) == IF i = 0 THEN <<>>
                   ELSE IF i \in files THEN Append(upTo(i - 1), FilePath(0, stamp, i))
                   ELSE upTo(i - 1)
    IN  upTo(MAX_PLAYERS + 1)

\* players.map(player => player.idPhotoUrl)
PhotoPaths(players) == [i \in 1..Len(players) |-> players[i].idPhotoUrl]

\* cleanupUploadedFiles(players) and the catch block's unlink of req.files:
\* Promise.all of fs.unlink; a rejection is logged, the other files are
\* removed all the same.
cleanupUploadedFiles(store, paths, failing) ==
    store \ (Range(paths) \ failing)

\* The while loop of processPlayersData from index i on.
RECURSIVE LocalPlayersLoop(_, _, _, _, _)
LocalPlayersLoop(body, files, stamp, i, acc) ==
    IF ~(i <= Len(body.players) /\ body.players[i].present)
    THEN [acc EXCEPT !.success = TRUE]
    ELSE
      LET playerName  == body.players[i].playerName
          dateOfBirth == body.players[i].dateOfBirth
          playerFile  == i \in files
      IN  IF playerName = <<>> \/ dateOfBirth = <<>>
          THEN [acc EXCEPT !.error =
                    PlayerError(i, "Name and date of birth are required")]
          ELSE IF ~playerFile
          THEN [acc EXCEPT !.error = PlayerError(i, "ID photo is required")]
          ELSE
            LET player == [playerName        |-> trim(playerName),
                           dateOfBirth       |-> ParseDate(dateOfBirth),
                           idPhotoUrl        |-> FilePath(0, stamp, i),
                           idPhotoPublicId   |-> Null,
                           ageAtRegistration |-> 0]
            IN  LocalPlayersLoop(body, files, stamp, i + 1,
                    [acc EXCEPT !.players = push(@, player)])

\* processPlayersData(body, files).  rollback names the files handed to
\* cleanupUploadedFiles before a roster-size error is returned; the handler
\* notes the paths of req.files in stored.
processPlayersData(body, files, stamp) ==
    IF ~body.hasPlayers
    THEN [NoPlayersData EXCEPT !.error = Error("Error processing player data")]
    ELSE
      LET loop == LocalPlayersLoop(body, files, stamp, 1, NoPlayersData)
      IN  IF ~loop.success THEN [NoPlayersData EXCEPT !.error = loop.error]
          ELSE IF Len(loop.players) < MIN_PLAYERS
          THEN [NoPlayersData EXCEPT !.error = Error("Minimum 5 players required"),
                                     !.rollback = PhotoPaths(loop.players)]
          ELSE IF Len(loop.players) > MAX_PLAYERS
          THEN [NoPlayersData EXCEPT !.error = Error("Maximum 10 players allowed"),
                                     !.rollback = PhotoPaths(loop.players)]
          ELSE loop

\* upload.any() and lines 59-107: multer writes the files (more than
\* limits.files of them abort the upload, multer removes what it wrote and
\* the handler never runs), then field validation and the roster build.  The
\* cleanup of a roster-size error is not awaited: the response goes out with
\* the unlink calls under way.
registerTeamLocal(p, r) ==
    /\ UNCHANGED aside
    /\ pc[p] = "idle"
    /\ Cardinality(teams) + Cardinality({q \in Slots : InFlight(q)}) < MaxTeams
    /\ Leftovers = {}
    /\ req' = [req EXCEPT ![p] = r]
    /\ team' = [team EXCEPT ![p] = NoTeam]
    /\ LET stamp   == generateTeamId
           written == PathsOf(r.files, stamp)
       IN  IF Cardinality(r.files) > MaxFiles
           THEN /\ Respond(p, Failure(500, Error("Too many files")))
                /\ playersData' = [playersData EXCEPT ![p] = NoPlayersData]
                /\ log' = [log EXCEPT ![p] = NoLog]
                /\ UNCHANGED <<teams, cloud, disk>>
           ELSE
             LET data == IF ~r.required
                         THEN [NoPlayersData EXCEPT
                                  !.error = Error("Missing required fields")]
                         ELSE IF ~r.emergencyContact
                         THEN [NoPlayersData EXCEPT !.error =
                                  Error("Emergency contact information is required")]
                         ELSE processPlayersData(r, r.files, stamp)
             IN  /\ disk' = disk \cup Range(written)
                 /\ playersData' = [playersData EXCEPT ![p] =
                                        [data EXCEPT !.stored = written]]
                 /\ log' = [log EXCEPT ![p] =
                               [NoLog EXCEPT !.stored = Range(written),
                                             !.deleteCalled = Range(data.rollback),
                                             !.unlinking = Range(data.rollback)]]
                 /\ IF ~data.success
                    THEN Respond(p, Failure(400, data.error))
                    ELSE /\ pc' = [pc EXCEPT ![p] = "findOneLocal"]
                         /\ resp' = [resp EXCEPT ![p] = NoResponse]
                 /\ UNCHANGED <<teams, cloud>>

\* The unlink calls of an unawaited cleanupUploadedFiles settle.
cleanupUploadedFilesSettle(p) ==
    /\ UNCHANGED aside
    /\ log[p].unlinking # {}
    /\ \E failing \in UnlinkFaults(playersData[p].rollback) :
          /\ disk' = cleanupUploadedFiles(disk, playersData[p].rollback, failing)
          /\ log' = [log EXCEPT ![p].unlinking = {},
                                ![p].deleteFailed = @ \cup failing]
    /\ UNCHANGED <<teams, cloud, pc, req, playersData, team, resp>>

\* Lines 109-170: the duplicate check answered by the repository (the files
\* stay on a duplicate), then generateTeamId, the Team is built and its ages
\* validated, and team.save() is issued.
registerTeamLocalFindOne(p) ==
    /\ UNCHANGED aside
    /\ pc[p] = "findOneLocal"
    /\ LET body         == req[p]
           paths        == PhotoPaths(playersData[p].players)
           existingTeam == findOne(toLowerCase(body.coachEmail), body.teamName)
           built        == NewTeam(body, generateTeamId, playersData[p].players)
       IN  IF existingTeam # {}
           THEN /\ log' = [log EXCEPT ![p].existingTeam = "found"]
                /\ Respond(p, Failure(400,
                      Error("A team with this name and coach email already exists")))
                /\ UNCHANGED <<teams, cloud, disk, req, playersData, team>>
           ELSE IF ~agesWithinTier(built)
           THEN \E failing \in UnlinkFaults(paths) :
                  /\ disk' = cleanupUploadedFiles(disk, paths, failing)
                  /\ log' = [log EXCEPT ![p].deleteCalled = @ \cup Range(paths),
                                        ![p].deleteFailed = @ \cup failing,
                                        ![p].existingTeam = "none",
                                        ![p].registrationFee = built.registrationFee,
                                        ![p].constructed = TRUE,
                                        ![p].agesComputed = TRUE]
                  /\ team' = [team EXCEPT ![p] = built]
                  /\ Respond(p, Failure(400,
                        Error("Player ages must be within the tier age range")))
                  /\ UNCHANGED <<teams, cloud, req, playersData>>
           ELSE /\ team' = [team EXCEPT ![p] = built]
                /\ log' = [log EXCEPT ![p].existingTeam = "none",
                                      ![p].registrationFee = built.registrationFee,
                                      ![p].constructed = TRUE,
                                      ![p].agesComputed = TRUE]
                /\ pc' = [pc EXCEPT ![p] = "saveLocal"]
                /\ UNCHANGED <<teams, cloud, disk, req, playersData, resp>>

\* Lines 169-170 and 191-207: team.save() resolves and the Team is persisted,
\* or it rejects and the catch block unlinks req.files and answers 500.
registerTeamLocalSave(p) ==
    /\ UNCHANGED aside
    /\ pc[p] = "saveLocal"
    /\ \/ /\ teams' = teams \cup {team[p]}
          /\ log' = [log EXCEPT ![p].saved = TRUE]
          /\ pc' = [pc EXCEPT ![p] = "moveFiles"]
          /\ UNCHANGED <<cloud, disk, req, playersData, team, resp>>
       \/ \E failing \in UnlinkFaults(playersData[p].stored) :
          /\ disk' = cleanupUploadedFiles(disk, playersData[p].stored, failing)
          /\ log' = [log EXCEPT ![p].deleteCalled = @ \cup Range(playersData[p].stored),
                                ![p].deleteFailed = @ \cup failing]
          /\ Respond(p, Failure(500,
                Error("Failed to save registration. Please try again or contact support.")))
          /\ UNCHANGED <<teams, cloud, req, playersData, team>>

\* The players of a team with the files of the first `moved` of them renamed
\* into the team's directory.
MovedPlayers(t, moved) ==
    [i \in 1..Len(t.players) |->
        IF i <= moved
        THEN [t.players[i] EXCEPT
                 !.idPhotoUrl = FilePath(t.teamId, @[2], @[3])]
        ELSE t.players[i]]

\* updateFilePathsWithTeamId(team): every file is renamed into the team's
\* directory and the new paths are saved; when mkdir or a rename rejects the
\* rest is skipped (failAt: the rename that rejects, 0 for none) and the
\* repository keeps the old paths.
updateFilePathsWithTeamId(p) ==
    /\ UNCHANGED aside
    /\ pc[p] = "moveFiles"
    /\ \E failAt \in {0, 1, Len(team[p].players)} :
         LET moved   == IF failAt = 0 THEN Len(team[p].players) ELSE failAt - 1
             players == MovedPlayers(team[p], moved)
         IN  /\ disk' = (disk \ Range(PhotoPaths(SubSeq(team[p].players, 1, moved))))
                           \cup Range(PhotoPaths(SubSeq(players, 1, moved)))
             /\ team' = [team EXCEPT ![p].players = players]
             /\ teams' = IF failAt = 0
                         THEN {IF t.teamId = team[p].teamId
                               THEN [t EXCEPT !.players = players] ELSE t : t \in teams}
                         ELSE teams
    /\ pc' = [pc EXCEPT ![p] = "emailCoach"]
    /\ UNCHANGED <<cloud, req, playersData, resp, log>>

----------------------------------------------------------------------------
(* Payment Instruction Resolver (getPaymentInstructions) *)

\* process.env as the resolver reads it; "" stands for an unset variable.
Envs ==
    {[MAILING_ADDRESS |-> "", ZELLE_EMAIL |-> "", VENMO_USERNAME |-> ""],
     [MAILING_ADDRESS |-> "PO Box 7<br>Carmel, IN 46032",
      ZELLE_EMAIL |-> "pay@alhudaspark.org", VENMO_USERNAME |-> "@SparkHoops"]}

\* a || b on strings: the empty (or missing) string is falsy.
OrElse(a, b) == IF a = "" THEN b ELSE a

\* Number.prototype.toLocaleString(): digits grouped by thousands.
Pad3(n) ==
    IF n < 10 THEN "00" \o ToString(n)
    ELSE IF n < 100 THEN "0" \o ToString(n)
    ELSE ToString(n)

RECURSIVE toLocaleString(_)
toLocaleString(n) ==
    IF n < 1000 THEN ToString(n)
    ELSE toLocaleString(n \div 1000) \o "," \o Pad3(n % 1000)

\* What the resolver returns: an instructions object, null, or a member
\* inherited from Object.prototype (named in title).
NoInstructions == [kind |-> "null", title |-> "", text |-> "", details |-> <<>>]
Instructions(title, text, details) ==
    [kind |-> "object", title |-> title, text |-> text, details |-> details]
Inherited(name) ==
    [kind |-> "function", title |-> name, text |-> "", details |-> <<>>]

\* Property names every object literal inherits from Object.prototype.
ObjectPrototype ==
    {"constructor", "toString", "valueOf", "hasOwnProperty", "__proto__"}

\* instructions[key] || null: own properties first, then the prototype chain.
GetOrNull(instructions, key) ==
    IF key \in DOMAIN instructions THEN instructions[key]
    ELSE IF key \in ObjectPrototype THEN Inherited(key)
    ELSE NoInstructions

\* A resolver that numbers its payloads with the calls made before: C13
\* rests on getPaymentInstructions reading nothing but its arguments.
getPaymentInstructionsCounting(t, env) ==
    [NoInstructions EXCEPT !.kind = "object",
                           !.title = t.paymentMethod,
                           !.details = <<ToString(Len(calls))>>]

\* getPaymentInstructions(team) of the team controllers.
getPaymentInstructions(t, env) ==
    LET amount == toLocaleString(t.registrationFee)
        instructions ==
          [check |-> Instructions("Payment by Check",
              "Please make your check payable to Alhuda SPARK and mail it to:",
              <<"Alhuda SPARK",
                OrElse(env.MAILING_ADDRESS, "123 Main Street<br>Indianapolis, IN 46201"),
                "Amount:", amount,
                "Memo: Team Registration -", t.teamName,
                "Reference:", ToString(t.teamId)>>),
           zelle |-> Instructions("Payment by Zelle",
              "Please send your Zelle payment using the following information:",
              <<"Recipient Email:", OrElse(env.ZELLE_EMAIL, "finance@alhudaspark.org"),
                "Recipient Name: Alhuda SPARK",
                "Amount:", amount,
                "Memo:", ToString(t.teamId)>>),
           venmo |-> Instructions("Payment by Venmo",
              "Please send your Venmo payment to:",
              <<"Venmo Username:", OrElse(env.VENMO_USERNAME, "@AlhudaSPARK"),
                "Amount:", amount,
                "Note:", ToString(t.teamId), "-", t.teamName>>)]
    IN  GetOrNull(instructions, t.paymentMethod)

\* getPaymentInstructions(sponsor) of the sponsor controller.
sponsorGetPaymentInstructions(sponsor, env) ==
    LET amount == toLocaleString(sponsor.amount)
        instructions ==
          [check |-> Instructions("Payment by Check",
              "Please make your check payable to Alhuda SPARK and mail it to:",
              <<"Alhuda SPARK",
                OrElse(env.MAILING_ADDRESS, "123 Main Street<br>Indianapolis, IN 46201"),
                "Amount:", amount,
                "Memo:", sponsor.tierDisplayName, "Sponsorship -", sponsor.companyName,
                "Reference:", ToString(sponsor.sponsorId)>>),
           zelle |-> Instructions("Payment by Zelle",
              "Please send your Zelle payment using the following information:",
              <<"Recipient Email:", OrElse(env.ZELLE_EMAIL, "finance@alhudaspark.org"),
                "Recipient Name: Alhuda SPARK",
                "Amount:", amount,
                "Memo:", ToString(sponsor.sponsorId)>>),
           venmo |-> Instructions("Payment by Venmo",
              "Please send your Venmo payment to:",
              <<"Venmo Username:", OrElse(env.VENMO_USERNAME, "@AlhudaSPARK"),
                "Amount:", amount,
                "Note:", ToString(sponsor.sponsorId), "-", sponsor.companyName>>)]
    IN  GetOrNull(instructions, sponsor.paymentMethod)

\* Calls of the pure functions kept in one behaviour.
MaxCalls == 2

PaymentMethods == {"check", "zelle", "venmo", "zeffy", "constructor"}

\* The records handed to the resolvers.
PaymentTeams ==
    {[teamId |-> 1, teamName |-> n, registrationFee |-> f, paymentMethod |-> m] :
        n \in {"Falcons", "Hawks"}, f \in {250, 350}, m \in PaymentMethods}

PaymentSponsors ==
    {[sponsorId |-> 7, companyName |-> "Crescent Foods", tierDisplayName |-> "Gold",
      amount |-> a, paymentMethod |-> m] : a \in {500, 2500}, m \in PaymentMethods}

\* One call of the team resolver under some environment configuration.
getPaymentInstructionsCall ==
    /\ Len(calls) < MaxCalls
    /\ \E t \in PaymentTeams, env \in Envs :
          calls' = Append(calls, [fn |-> "getPaymentInstructions", arg |-> t,
                                  env |-> env, result |-> getPaymentInstructions(t, env)])
    /\ UNCHANGED <<teamVars, pageVars, sponsorVars>>

\* One call of the sponsor resolver under some environment configuration.
sponsorGetPaymentInstructionsCall ==
    /\ Len(calls) < MaxCalls
    /\ \E sponsor \in PaymentSponsors, env \in Envs :
          calls' = Append(calls, [fn |-> "sponsorGetPaymentInstructions", arg |-> sponsor,
                                  env |-> env,
                                  result |-> sponsorGetPaymentInstructions(sponsor, env)])
    /\ UNCHANGED <<teamVars, pageVars, sponsorVars>>

\* Dates of birth and registration moments handed to the Age Calculator:
\* birthdays before, on and after the registration day, and a string that is
\* no date.
AgeDobs ==
    {<<y, m, d>> : y \in {2010, 2011}, m \in {10, 11, 12}, d \in {1, 2, 30}}
    \cup {<<2010, 13, 1>>}
AgeAsOfs == {Today, <<2025, 11, 2>>, <<2026, 10, 30>>}

\* new Date(dateOfBirth) followed by the Age Calculator, as registerTeam and
\* team.calculatePlayerAges() apply them to one player.
calculateAgeCall ==
    /\ Len(calls) < MaxCalls
    /\ \E dob \in AgeDobs, asOf \in AgeAsOfs :
          calls' = Append(calls, [fn |-> "calculateAge",
                                  arg |-> [dateOfBirth |-> dob, asOf |-> asOf],
                                  result |-> calculateAge(ParseDate(dob), asOf)])
    /\ UNCHANGED <<teamVars, pageVars, sponsorVars>>

----------------------------------------------------------------------------
(* Back office *)

\* Staff settle a pending registration: approved, waitlisted or rejected
\* (one settled registration at a time).
ReviewTeam(t, status) ==
    /\ UNCHANGED aside
    /\ t \in teams
    /\ \A u \in teams : u.registrationStatus = "pending"
    /\ teams' = (teams \ {t}) \cup {[t EXCEPT !.registrationStatus = status]}
    /\ UNCHANGED <<cloud, disk, pc, req, playersData, team, resp, log>>

----------------------------------------------------------------------------
(* Sponsorship: the Sponsor repository, createZeffyPaymentSession,          *)
(* registerSponsor and the Zeffy webhook                                    *)

\* Sponsor documents the repository may hold.
MaxSponsors == 2

\* The amount field of a request body as text: its leading number (NaN when
\* it starts with none) and what follows the number.
Amount(number, rest) == [number |-> number, rest |-> rest]
NoAmount == Amount(NaN, "")

\* parseFloat(amount): the leading number of the text, NaN without one.
parseFloat(amount) == amount.number

\* tierAmounts of createZeffyPaymentSession.
tierAmounts ==
    [diamond |-> 10000, platinum |-> 5000, gold |-> 2500, silver |-> 1000]

\* !(!tierAmounts[tier] || parseFloat(amount) !== tierAmounts[tier]): a
\* member inherited from Object.prototype is truthy but equals no number.
tierAndAmountValid(tier, amount) ==
    /\ tier \in DOMAIN tierAmounts
    /\ parseFloat(amount) = tierAmounts[tier]

\* req.body of the two sponsor endpoints; required: companyName,
\* contactPerson, email and phone are all there.
SponsorBody(company, email, tier, amount, method, required) ==
    [companyName |-> company, email |-> email, tier |-> tier, amount |-> amount,
     paymentMethod |-> method, required |-> required]

NoSponsor ==
    [sponsorId |-> 0, companyName |-> "", email |-> "", tier |-> "", amount |-> 0,
     paymentMethod |-> "", paymentStatus |-> "", zeffySessionId |-> 0,
     transactionId |-> 0]

\* new Sponsor({...}) of either endpoint.
NewSponsor(sponsorId, body, email, method, status) ==
    [sponsorId |-> sponsorId, companyName |-> body.companyName, email |-> email,
     tier |-> body.tier, amount |-> parseFloat(body.amount),
     paymentMethod |-> method, paymentStatus |-> status, zeffySessionId |-> 0,
     transactionId |-> 0]

NoSponsorResponse ==
    [status |-> 0, success |-> FALSE, error |-> "", sponsorId |-> 0, sessionId |-> 0]
SponsorFailure(status, error) ==
    [status |-> status, success |-> FALSE, error |-> error, sponsorId |-> 0,
     sessionId |-> 0]
SponsorSuccess(sponsorId, sessionId) ==
    [status |-> 200, success |-> TRUE, error |-> "", sponsorId |-> sponsorId,
     sessionId |-> sessionId]

\* The sponsor request being handled: the handler and its position, the
\* body, the Sponsor document it holds, whether that document was saved, the
\* session the gateway opened and the response.
NoSponsorRequest ==
    [handler |-> "", pc |-> "idle",
     body |-> SponsorBody("", "", "", NoAmount, "", FALSE), sponsor |-> NoSponsor,
     saved |-> FALSE, sessionId |-> 0, resp |-> NoSponsorResponse]

\* Sponsor.generateSponsorId(): an identifier no sponsor carries yet.
generateSponsorId ==
    CHOOSE id \in 1..(Cardinality(sponsors) + 1) :
        /\ id \notin {sp.sponsorId : sp \in sponsors}
        /\ \A other \in 1..(id - 1) : other \in {sp.sponsorId : sp \in sponsors}

\* The handler answers and ends.
SponsorRespond(handler, body, doc, saved, sessionId, response) ==
    sreq' = [handler |-> handler, pc |-> "done", body |-> body, sponsor |-> doc,
             saved |-> saved, sessionId |-> sessionId, resp |-> response]

SessionError == "Failed to create payment session. Please try again or contact support."

\* createZeffyPaymentSession, lines 14-71: validation, the Sponsor document
\* in status processing and its first save, which resolves or rejects.
createZeffyPaymentSession(body) ==
    /\ sreq.pc = "idle"
    /\ Cardinality(sponsors) < MaxSponsors
    /\ IF ~body.required \/ body.tier = "" \/ body.amount = NoAmount
       THEN /\ SponsorRespond("createZeffyPaymentSession", body, NoSponsor, FALSE, 0,
                              SponsorFailure(400, "Missing required fields"))
            /\ UNCHANGED sponsors
       ELSE IF ~tierAndAmountValid(body.tier, body.amount)
       THEN /\ SponsorRespond("createZeffyPaymentSession", body, NoSponsor, FALSE, 0,
                              SponsorFailure(400, "Invalid tier or amount"))
            /\ UNCHANGED sponsors
       ELSE LET doc == NewSponsor(generateSponsorId, body, body.email,
                                  "zeffy", "processing")
            IN  \/ /\ sponsors' = sponsors \cup {doc}
                   /\ sreq' = [handler |-> "createZeffyPaymentSession", pc |-> "post",
                               body |-> body, sponsor |-> doc, saved |-> TRUE,
                               sessionId |-> 0, resp |-> NoSponsorResponse]
                \/ /\ SponsorRespond("createZeffyPaymentSession", body, doc, FALSE, 0,
                                     SponsorFailure(500, SessionError))
                   /\ UNCHANGED sponsors
    /\ UNCHANGED <<teamVars, calls, pageVars, hook>>

\* Lines 73-107: axios.post to the gateway resolves with a session, or
\* rejects and the catch block answers 500.
createZeffyPaymentSessionPost ==
    /\ sreq.pc = "post"
    /\ \/ sreq' = [sreq EXCEPT !.pc = "saveSession", !.sessionId = 100 + sreq.sponsor.sponsorId]
       \/ SponsorRespond(sreq.handler, sreq.body, sreq.sponsor, sreq.saved, 0,
                         SponsorFailure(500, SessionError))
    /\ UNCHANGED <<teamVars, calls, pageVars, sponsors, hook>>

\* Lines 109-119: the session id is set on the document and saved (the save
\* writes the one modified path), or the save rejects.
createZeffyPaymentSessionSave ==
    /\ sreq.pc = "saveSession"
    /\ \/ /\ sponsors' =
                {IF sp.sponsorId = sreq.sponsor.sponsorId
                 THEN [sp EXCEPT !.zeffySessionId = sreq.sessionId] ELSE sp :
                    sp \in sponsors}
          /\ SponsorRespond(sreq.handler, sreq.body, sreq.sponsor, sreq.saved,
                            sreq.sessionId,
                            SponsorSuccess(sreq.sponsor.sponsorId, sreq.sessionId))
       \/ /\ SponsorRespond(sreq.handler, sreq.body, sreq.sponsor, sreq.saved,
                            sreq.sessionId, SponsorFailure(500, SessionError))
          /\ UNCHANGED sponsors
    /\ UNCHANGED <<teamVars, calls, pageVars, hook>>

\* Sponsor.findOne({email, tier, paymentStatus: {$in: [...]}})
sponsorFindOne(email, tier) ==
    {sp \in sponsors : /\ sp.email = email
                       /\ sp.tier = tier
                       /\ sp.paymentStatus \in {"pending", "processing", "completed"}}

\* registerSponsor of the sponsor controller: required fields, the duplicate
\* check, the Sponsor document in status pending and its save; the two
\* emails swallow their errors and the response carries the instructions.
registerSponsor(body) ==
    /\ sreq.pc = "idle"
    /\ Cardinality(sponsors) < MaxSponsors
    /\ IF \/ ~body.required \/ body.tier = "" \/ body.amount = NoAmount
          \/ body.paymentMethod = ""
       THEN /\ SponsorRespond("registerSponsor", body, NoSponsor, FALSE, 0,
                              SponsorFailure(400, "Missing required fields"))
            /\ UNCHANGED sponsors
       ELSE IF sponsorFindOne(toLowerCase(body.email), body.tier) # {}
       THEN /\ SponsorRespond("registerSponsor", body, NoSponsor, FALSE, 0,
                 SponsorFailure(400,
                    "A sponsorship registration already exists for this email and tier combination"))
            /\ UNCHANGED sponsors
       ELSE LET doc == NewSponsor(generateSponsorId, body, toLowerCase(body.email),
                                  body.paymentMethod, "pending")
            IN  \/ /\ sponsors' = sponsors \cup {doc}
                   /\ SponsorRespond("registerSponsor", body, doc, TRUE, 0,
                                     SponsorSuccess(doc.sponsorId, 0))
                \/ /\ SponsorRespond("registerSponsor", body, doc, FALSE, 0,
                         SponsorFailure(500,
                            "Failed to save registration. Please try again or contact support."))
                   /\ UNCHANGED sponsors
    /\ UNCHANGED <<teamVars, calls, pageVars, hook>>

\* The response has been written; the server is ready for the next sponsor
\* request.
EndSponsorRequest ==
    /\ sreq.pc = "done"
    /\ sreq' = NoSponsorRequest
    /\ UNCHANGED <<teamVars, calls, pageVars, sponsors, hook>>

\* process.env.ZEFFY_WEBHOOK_SECRET; "" stands for an unset variable.
Unset == ""
WebhookSecrets == {Unset, "whsec_live"}

\* req.body of a webhook delivery: the event and its data, whose metadata
\* (when there) names a sponsor.
WebhookBody(event, metadata, sponsorId) ==
    [event |-> event, metadata |-> metadata, sponsorId |-> sponsorId]

\* JSON.stringify(payload)
stringify(payload) ==
    "{event:" \o payload.event \o ",sponsorId:"
        \o (IF payload.metadata THEN ToString(payload.sponsorId) ELSE "") \o "}"

\* crypto.createHmac('sha256', secret).update(text).digest('hex'): a digest
\* only the holder of the secret can compute for the text.
createHmac(secret, text) == "sha256(" \o secret \o "," \o text \o ")"

\* A verification that accepts every signature: C28 rests on the comparison
\* with the expected signature.
verifyAnySignature(payload, signature, secret) == TRUE

\* verifyZeffySignature(payload, signature, secret), for a secret that is
\* set (createHmac throws on an undefined key).
verifyZeffySignature(payload, signature, secret) ==
    signature = createHmac(secret, stringify(payload))

\* sponsor.markPaymentComplete(transactionId) and
\* sponsor.updatePaymentStatus(status) of the Sponsor model: the status the
\* call names is set and the document saved.
markPaymentComplete(sp, transactionId) ==
    [sp EXCEPT !.paymentStatus = "completed", !.transactionId = transactionId]

updatePaymentStatus(sp, status) == [sp EXCEPT !.paymentStatus = status]

\* The sponsor Sponsor.findOne({sponsorId: metadata.sponsorId}) returns and
\* the handler's method call reaches: without metadata the handler's own
\* try/catch swallows the TypeError, and a rejected save is swallowed too.
findSponsor(payload, saves) ==
    IF ~payload.metadata \/ ~saves THEN {}
    ELSE {sp \in sponsors : sp.sponsorId = payload.sponsorId}

\* handlePaymentCompleted(data), handlePaymentFailed(data) and
\* handlePaymentCancelled(data): the sponsor is looked up by its identifier
\* alone and the model's method called on it.
handlePaymentCompleted(payload, saves) ==
    {IF sp \in findSponsor(payload, saves)
     THEN markPaymentComplete(sp, 500 + sp.sponsorId) ELSE sp : sp \in sponsors}

handlePaymentFailed(payload, saves) ==
    {IF sp \in findSponsor(payload, saves)
     THEN updatePaymentStatus(sp, "failed") ELSE sp : sp \in sponsors}

handlePaymentCancelled(payload, saves) ==
    {IF sp \in findSponsor(payload, saves)
     THEN updatePaymentStatus(sp, "cancelled") ELSE sp : sp \in sponsors}

\* A webhook delivery and the status of the response it got.
Hook(payload, signature, secret, status) ==
    [event |-> payload.event, metadata |-> payload.metadata,
     sponsorId |-> payload.sponsorId, signature |-> signature,
     secret |-> secret, status |-> status]

\* handleZeffyWebhook(req, res) for one delivery.
handleZeffyWebhook(payload, signature, secret, saves) ==
    /\ IF secret = Unset
       THEN \* createHmac throws; the catch block answers
            /\ hook' = Hook(payload, signature, secret, 500)
            /\ UNCHANGED sponsors
       ELSE IF ~verifyZeffySignature(payload, signature, secret)
       THEN /\ hook' = Hook(payload, signature, secret, 401)
            /\ UNCHANGED sponsors
       ELSE /\ hook' = Hook(payload, signature, secret, 200)
            /\ sponsors' =
                 CASE payload.event = "payment.completed" ->
                          handlePaymentCompleted(payload, saves)
                   [] payload.event = "payment.failed" ->
                          handlePaymentFailed(payload, saves)
                   [] payload.event = "payment.cancelled" ->
                          handlePaymentCancelled(payload, saves)
                   [] OTHER -> sponsors
    /\ UNCHANGED <<teamVars, calls, pageVars, sreq>>

\* The deliveries the endpoint receives for the first sponsor: every event,
\* and a completion whose data carries no metadata.
WebhookBodies ==
    {WebhookBody(e, TRUE, 1) :
        e \in {"payment.completed", "payment.failed", "payment.cancelled",
               "payment.refunded"}}
    \cup {WebhookBody("payment.completed", FALSE, 1)}

\* The zeffy-signature header: missing, the gateway's signature of this
\* payload, a signature under another key, and the gateway's signature of
\* another payload.
Signatures(payload) ==
    {"",
     createHmac("whsec_live", stringify(payload)),
     createHmac("guess", stringify(payload)),
     createHmac("whsec_live", stringify(WebhookBody("payment.refunded", TRUE, 2)))}

\* One delivery under some configuration of the secret; the save of the
\* Sponsor model's methods resolves or rejects.
zeffyWebhook ==
    \E payload \in WebhookBodies, secret \in WebhookSecrets :
        \E signature \in IF secret = Unset
                         THEN {"", createHmac("whsec_live", stringify(payload))}
                         ELSE Signatures(payload) :
            \E saves \in IF secret # Unset
                            /\ signature = createHmac(secret, stringify(payload))
                            /\ payload.metadata
                            /\ payload.event # "payment.refunded"
                         THEN BOOLEAN ELSE {TRUE} :
                handleZeffyWebhook(payload, signature, secret, saves)

----------------------------------------------------------------------------
(* The team registration page script (player cards) *)

\* Cards the page creates in one life (document.createElement calls).
MaxCreated == 13

\* The script's state: its counter, the cards of #playersContainer, the
\* number of cards created so far and the text of the error modal.
PageState(count, cards, made, text) ==
    [playerCount |-> count, playersContainer |-> cards,
     created |-> made, errorModalText |-> text]

\* createPlayerCard(playerNum): a new card (node: its identity) whose inputs
\* are named players[playerNum-1][...]; a remove button only above the
\* minimum.
createPlayerCard(playerNum, node) ==
    [node         |-> node,
     playerNumber |-> playerNum,
     index        |-> playerNum - 1,
     removeBtn    |-> playerNum > MIN_PLAYERS]

\* showError(message)
showError(st, message) == [st EXCEPT !.errorModalText = message]

\* addPlayer()
addPlayer(st) ==
    IF st.playerCount >= MAX_PLAYERS
    THEN showError(st, "Maximum 10 players allowed per team")
    ELSE LET count == st.playerCount + 1
         IN  [st EXCEPT
                 !.playerCount = count,
                 !.playersContainer = Append(@, createPlayerCard(count, st.created + 1)),
                 !.created = @ + 1]

\* for (let i = 0; i < MIN_PLAYERS; i++) addPlayer()
RECURSIVE addPlayers(_, _)
addPlayers(st, times) ==
    IF times = 0 THEN st ELSE addPlayers(addPlayer(st), times - 1)

\* A renumbering that leaves every card as it is: C27 rests on
\* renumberPlayers.
renumberNothing(cards) == cards

\* renumberPlayers(): every card, in document order, gets its position as
\* number and input index; the remove button is dropped at or below the
\* minimum and added above it.
renumberPlayers(cards) ==
    [i \in 1..Len(cards) |->
        LET playerNum == i
        IN  [cards[i] EXCEPT
                !.playerNumber = playerNum,
                !.index = i - 1,
                !.removeBtn = IF @ THEN ~(playerNum <= MIN_PLAYERS)
                              ELSE playerNum > MIN_PLAYERS]]

\* The sequence without its k-th element (playerCard.remove()).
RemoveAt(seq, k) == SubSeq(seq, 1, k - 1) \o SubSeq(seq, k + 1, Len(seq))

\* removePlayer(btn), btn within the k-th card of the container.
removePlayer(st, k) ==
    IF st.playerCount <= MIN_PLAYERS
    THEN showError(st, "Minimum 5 players required")
    ELSE [st EXCEPT
             !.playerCount = @ - 1,
             !.playersContainer = renumberPlayers(RemoveAt(@, k))]

\* resetForm(): the container is emptied, the counter zeroed and the minimum
\* number of cards added again.
resetForm(st) ==
    addPlayers([st EXCEPT !.playerCount = 0, !.playersContainer = <<>>], MIN_PLAYERS)

\* init(), run when the script loads.
init == addPlayers(PageState(0, <<>>, 0, ""), MIN_PLAYERS)

Page == PageState(playerCount, playersContainer, created, errorModalText)

\* The page moves to state st.
PageBecomes(st) ==
    /\ playerCount' = st.playerCount
    /\ playersContainer' = st.playersContainer
    /\ created' = st.created
    /\ errorModalText' = st.errorModalText
    /\ UNCHANGED <<teamVars, calls, sponsorVars>>

\* A click on "+ Add Player".
addPlayerClick ==
    /\ created < MaxCreated
    /\ PageBecomes(addPlayer(Page))

\* window.removePlayer(btn): a click on a card's remove button, or a call
\* with an element of any card (the function is global).
removePlayerClick ==
    \E k \in 1..Len(playersContainer) : PageBecomes(removePlayer(Page, k))

\* The payment modal is closed after a successful submission.
resetFormClick ==
    /\ created + MIN_PLAYERS <= MaxCreated
    /\ PageBecomes(resetForm(Page))

----------------------------------------------------------------------------
(* Initial state *)

Init ==
    /\ teams = {}
    /\ cloud = {}
    /\ disk = {}
    /\ pc = [p \in Slots |-> "idle"]
    /\ req = [p \in Slots |-> NoRequest]
    /\ playersData = [p \in Slots |-> NoPlayersData]
    /\ team = [p \in Slots |-> NoTeam]
    /\ resp = [p \in Slots |-> NoResponse]
    /\ log = [p \in Slots |-> NoLog]
    /\ calls = <<>>
    /\ playerCount = init.playerCount
    /\ playersContainer = init.playersContainer
    /\ created = init.created
    /\ errorModalText = init.errorModalText
    /\ sponsors = {}
    /\ sreq = NoSponsorRequest
    /\ hook = Hook(WebhookBody("", FALSE, 0), "", Unset, 0)

----------------------------------------------------------------------------
(* Specifications *)

\* The steps both variants share once the Team is saved.
Finish(p) ==
    \/ sendTeamConfirmationEmail(p)
    \/ sendAdminNotificationEmail(p)
    \/ EndRequest(p)

HandleCloud(p) ==
    \/ registerTeamFindOne(p)
    \/ registerTeamSave(p)

Handle(p) == HandleCloud(p) \/ Finish(p)

Review ==
    \E t \in teams : \E status \in {"approved", "waitlisted", "rejected"} :
        ReviewTeam(t, status)

\* Requests handled one after the other.
Next ==
    \/ \E r \in Requests : registerTeamBuild(SeqSlot, r)
    \/ Handle(SeqSlot)
    \/ Review

Spec == Init /\ [][Next]_vars

\* Two requests handled concurrently: the complete rosters of one team, sent
\* with the coach's email in either case, and of another team.
RaceRequests ==
    {Request(e, "Falcons", "middle", "ok", TRUE, MIN_PLAYERS, 0, "none", "all") :
        e \in {"coach@hoops.org", "Coach@Hoops.org"}}
    \cup {Request("coach@hoops.org", "Hawks", "middle", "ok", TRUE,
                  MIN_PLAYERS, 0, "none", "none")}

NextRace ==
    \E p \in Slots :
        \/ \E r \in RaceRequests : registerTeamBuild(p, r)
        \/ Handle(p)

SpecRace == Init /\ [][NextRace]_vars

HandleDisk(p) ==
    \/ registerTeamLocalFindOne(p)
    \/ registerTeamLocalSave(p)
    \/ updateFilePathsWithTeamId(p)
    \/ cleanupUploadedFilesSettle(p)

HandleLocal(p) == HandleDisk(p) \/ Finish(p)

\* Rosters submitted to the local-disk variant.
LocalRequests ==
    RosterRequests("high_school") \cup OtherRequests
    \cup {Request("coach@hoops.org", "Falcons", "middle", "ok", TRUE,
                  MIN_PLAYERS, 0, "none", "none")}

\* The local-disk variant, requests handled one after the other.
NextLocal ==
    \/ \E r \in LocalRequests : registerTeamLocal(SeqSlot, r)
    \/ HandleLocal(SeqSlot)
    \/ Review

SpecLocal == Init /\ [][NextLocal]_vars

\* Rosters of every size and rosters with one player too young or too old,
\* submitted to either variant over the same repository.
VariantRequests ==
    {Request("coach@hoops.org", "Falcons", "high_school", "ok", TRUE, n, 0, "none", "all") :
        n \in RosterSizes}
    \cup {Request("coach@hoops.org", "Falcons", "high_school", "ok", TRUE,
                  MIN_PLAYERS, MIN_PLAYERS, kd, "all") : kd \in {"young", "old"}}

NextVariants ==
    \/ \E r \in VariantRequests : registerTeamBuild(SeqSlot, r)
    \/ \E r \in VariantRequests : registerTeamLocal(SeqSlot, r)
    \/ HandleCloud(SeqSlot)
    \/ HandleDisk(SeqSlot)
    \/ Finish(SeqSlot)
    \/ Review

SpecVariants == Init /\ [][NextVariants]_vars

\* Rosters with a date of birth that is no date, and bodies in which one
\* players[i] group is missing between others, submitted to either variant.
EdgeRequests ==
    {Request("coach@hoops.org", "Falcons", "high_school", "ok", TRUE,
             MIN_PLAYERS, k, "badDob", "all") : k \in {0, 1, MIN_PLAYERS}}
    \cup {Request("coach@hoops.org", "Falcons", "high_school", "ok", TRUE,
                  MIN_PLAYERS + 2, MIN_PLAYERS + 1, "absent", "all"),
          Request("coach@hoops.org", "Falcons", "high_school", "ok", TRUE,
                  MIN_PLAYERS + 1, 3, "absent", "all")}

NextEdge ==
    \/ \E r \in EdgeRequests : registerTeamBuild(SeqSlot, r)
    \/ \E r \in EdgeRequests : registerTeamLocal(SeqSlot, r)
    \/ HandleCloud(SeqSlot)
    \/ HandleDisk(SeqSlot)
    \/ Finish(SeqSlot)
    \/ Review

SpecEdge == Init /\ [][NextEdge]_vars

\* One request handed to both variants over the same repository: the
\* Cloudinary handler on slot r1, the local-disk handler on slot r2.
TwinRequests ==
    {Request("coach@hoops.org", "Falcons", "high_school", "ok", TRUE, n, 0, "none", "all") :
        n \in {MIN_PLAYERS - 1, MIN_PLAYERS}}
    \cup {Request("coach@hoops.org", "Falcons", "middle", "ok", TRUE,
                  MIN_PLAYERS, 0, "none", "none"),
          Request("coach@hoops.org", "Falcons", "high_school", "noRequired", TRUE,
                  MIN_PLAYERS, 0, "none", "all")}

NextTwin ==
    \/ \E r \in TwinRequests : pc["r2"] = "idle" /\ registerTeamBuild("r1", r)
    \/ pc["r1"] # "idle" /\ registerTeamLocal("r2", req["r1"])
    \/ HandleCloud("r1")
    \/ HandleDisk("r2")
    \/ \E p \in Slots : Finish(p)

SpecTwin == Init /\ [][NextTwin]_vars

\* Either variant with the handler's own steps taken whenever they can be:
\* the repository and the Upload Store answer every call.  Nothing makes the
\* mail transport complete a send: the two email steps, which model
\* transporter.sendMail settling, carry no fairness.
SpecLive ==
    /\ Init /\ [][NextVariants]_vars
    /\ WF_vars(HandleCloud(SeqSlot))
    /\ WF_vars(HandleDisk(SeqSlot))

\* The payment instruction resolvers called on their own.
NextPayment ==
    \/ getPaymentInstructionsCall
    \/ sponsorGetPaymentInstructionsCall

SpecPayment == Init /\ [][NextPayment]_vars

\* The Age Calculator called on its own.
NextAge == calculateAgeCall

SpecAge == Init /\ [][NextAge]_vars

\* Sponsor requests, one after the other.
SponsorBodies ==
    {SponsorBody("Crescent Foods", "Ads@Crescent.com", "gold", Amount(2500, ""),
                 "check", TRUE),
     SponsorBody("Crescent Foods", "ads@crescent.com", "gold", Amount(1000, ""),
                 "zelle", TRUE),
     SponsorBody("Noor Books", "hello@noor.org", "diamond", Amount(10000, "usd"),
                 "check", TRUE),
     SponsorBody("Noor Books", "hello@noor.org", "bronze", Amount(500, ""),
                 "venmo", TRUE),
     SponsorBody("Noor Books", "hello@noor.org", "constructor", Amount(2500, ""),
                 "check", TRUE),
     SponsorBody("Noor Books", "hello@noor.org", "silver", Amount(NaN, "free"),
                 "check", TRUE),
     SponsorBody("Noor Books", "hello@noor.org", "silver", Amount(1000, ""),
                 "check", FALSE)}

HandleSponsor ==
    \/ createZeffyPaymentSessionPost
    \/ createZeffyPaymentSessionSave
    \/ EndSponsorRequest

\* Both sponsor endpoints over one repository.
NextSponsors ==
    \/ \E body \in SponsorBodies : createZeffyPaymentSession(body)
    \/ \E body \in SponsorBodies : registerSponsor(body)
    \/ HandleSponsor

SpecSponsors == Init /\ [][NextSponsors]_vars

\* The gateway flow: sessions opened for a sponsorship, a manual
\* registration, and webhook deliveries at any moment.
ZeffyBodies ==
    {SponsorBody("Crescent Foods", "ads@crescent.com", "gold", Amount(2500, ""),
                 "check", TRUE),
     SponsorBody("Crescent Foods", "ads@crescent.com", "gold", Amount(1000, ""),
                 "check", TRUE)}

NextZeffy ==
    \/ \E body \in ZeffyBodies : createZeffyPaymentSession(body)
    \/ \E body \in ZeffyBodies : registerSponsor(body)
    \/ HandleSponsor
    \/ zeffyWebhook

SpecZeffy == Init /\ [][NextZeffy]_vars

\* The registration page on its own.
NextPage ==
    \/ addPlayerClick
    \/ removePlayerClick
    \/ resetFormClick

SpecPage == Init /\ [][NextPage]_vars

----------------------------------------------------------------------------
(* Vocabulary of the properties *)

Done(p) == pc[p] = "done"
Failed(p) == Done(p) /\ ~resp[p].success

\* The Team of the request handled on slot p is in the repository.
Persisted(p) == \E t \in teams : t.teamId = team[p].teamId

\* Number of player field groups the request carries.
RosterSize(r) == Len(r.players)

CompleteGroup(g) == g.playerName # <<>> /\ g.dateOfBirth # <<>>

AgeOf(g) == calculateAge(ParseDate(g.dateOfBirth), Today)

Eligible(tier, age) ==
    /\ tier \in Tiers
    /\ age >= TierAgeRange(tier).minAge
    /\ age <= TierAgeRange(tier).maxAge

SamePair(t, r) ==
    t.coachEmail = toLowerCase(r.coachEmail) /\ t.teamName = r.teamName

UploadFailed(p) == resp[p].error.msg = "Failed to upload ID photo"
SaveFailed(p) == resp[p].status = 500

\* The Upload Store of either variant.
Store == cloud \cup disk

\* Every image stored by the attempt was handed to a delete call, and only
\* those whose delete call rejected are still in the store.
RolledBack(p) ==
    /\ log[p].stored \subseteq log[p].deleteCalled
    /\ log[p].stored \cap Store = log[p].deleteFailed

\* All fields, 5 to 10 complete players with the photos the tier requires,
\* every age within the tier's range.
ValidSubmission(r) ==
    /\ r.required /\ r.emergencyContact /\ r.hasPlayers
    /\ r.tier \in Tiers
    /\ RosterSize(r) >= MIN_PLAYERS /\ RosterSize(r) <= MAX_PLAYERS
    /\ \A i \in 1..RosterSize(r) :
          /\ CompleteGroup(r.players[i])
          /\ Eligible(r.tier, AgeOf(r.players[i]))
          /\ (r.tier = "high_school" => i \in r.files)

----------------------------------------------------------------------------
(* C1 *)

\* C1: every persisted Team has between 5 and 10 players.
C1_RosterBounds ==
    \A t \in teams :
        Len(t.players) >= MIN_PLAYERS /\ Len(t.players) <= MAX_PLAYERS

\* A team of 10 is in the repository and a roster of 11 has just been refused.
C1_Witness ==
    /\ \E t \in teams : Len(t.players) = MAX_PLAYERS
    /\ Failed(SeqSlot)
    /\ RosterSize(req[SeqSlot]) = MAX_PLAYERS + 1
    /\ resp[SeqSlot].error.msg = "Maximum 10 players allowed"

----------------------------------------------------------------------------
(* C2 *)

\* C2 as stated: after a failure response no image stored during the attempt
\* is left in the Upload Store.
C2_NoImageLeft ==
    \A p \in Slots : Failed(p) => log[p].stored \cap cloud = {}

\* C2 amended: after a failure response every image stored during the attempt
\* has been handed to a delete call, and it is gone from the store unless
\* that delete call itself was rejected by the store.
C2_RolledBack ==
    \A p \in Slots : Failed(p) => RolledBack(p)

\* team.save() rejected after five photos were stored, and none is left.
C2_Witness ==
    /\ Failed(SeqSlot)
    /\ SaveFailed(SeqSlot)
    /\ Cardinality(log[SeqSlot].stored) = MIN_PLAYERS
    /\ log[SeqSlot].stored \cap cloud = {}

----------------------------------------------------------------------------
(* C3 *)

\* C3: at most one non-terminal Team per (lower-cased coachEmail, teamName).
C3_UniquePair ==
    \A t, u \in teams :
        (/\ t.registrationStatus \in NonTerminal
         /\ u.registrationStatus \in NonTerminal
         /\ t.coachEmail = u.coachEmail
         /\ t.teamName = u.teamName) => t = u

----------------------------------------------------------------------------
(* C4 *)

HasIneligiblePlayer(r) ==
    /\ r.tier \in Tiers
    /\ \E i \in 1..RosterSize(r) :
          /\ r.players[i].dateOfBirth # <<>>
          /\ ~Eligible(r.tier, AgeOf(r.players[i]))

AgeError(p) == resp[p].error.msg = "Player ages must be within the tier age range"

AgesWithinTier ==
    \A t \in teams : \A i \in 1..Len(t.players) :
        Eligible(t.tier, t.players[i].ageAtRegistration)

----------------------------------------------------------------------------
(* C5 *)

DuplicateError(p) ==
    resp[p].error.msg = "A team with this name and coach email already exists"

\* A pending Team of another request holds the pair of the request on slot p.
PendingTwin(p) ==
    \E t \in teams : /\ SamePair(t, req[p])
                     /\ t.registrationStatus = "pending"
                     /\ t.teamId # team[p].teamId

NonTerminalOfPair(r) ==
    {t \in teams : SamePair(t, r) /\ t.registrationStatus \in NonTerminal}

----------------------------------------------------------------------------
(* C6 *)

\* The persisted Team of slot p holds the submitted players in their order.
PersistedAsSubmitted(p) ==
    \E t \in teams :
        /\ t.teamId = resp[p].teamId
        /\ Len(t.players) = RosterSize(req[p])
        /\ \A i \in 1..Len(t.players) :
              /\ t.players[i].playerName = trim(req[p].players[i].playerName)
              /\ t.players[i].dateOfBirth = ParseDate(req[p].players[i].dateOfBirth)
              /\ (t.players[i].idPhotoPublicId # Null) = (i \in req[p].files)

\* C6 as stated: a valid submission without a non-terminal duplicate gets a
\* success response with its teamId, and the persisted Team holds exactly
\* the submitted players in their order.
C6_ValidAccepted ==
    \A p \in Slots :
        (Done(p) /\ ValidSubmission(req[p]) /\ log[p].existingTeam # "found")
        => /\ resp[p].success
           /\ resp[p].teamId = team[p].teamId
           /\ PersistedAsSubmitted(p)

\* C6 amended: such a submission succeeds as stated provided every photo
\* upload and team.save() succeed; otherwise it fails with the upload error
\* or the generic 500 error and nothing is persisted.
C6_ValidAcceptedUnlessFault ==
    \A p \in Slots :
        (Done(p) /\ ValidSubmission(req[p]) /\ log[p].existingTeam # "found")
        => \/ /\ resp[p].success
              /\ resp[p].teamId = team[p].teamId
              /\ resp[p].teamId # 0
              /\ PersistedAsSubmitted(p)
           \/ /\ Failed(p)
              /\ (UploadFailed(p) \/ SaveFailed(p))
              /\ ~Persisted(p)

\* A roster of 10 was accepted, and one whose third player's name came padded.
C6_Witness ==
    /\ Done(SeqSlot) /\ resp[SeqSlot].success
    /\ PersistedAsSubmitted(SeqSlot)
    /\ req[SeqSlot].players[3].playerName # trim(req[SeqSlot].players[3].playerName)
    /\ \E t \in teams : Len(t.players) = MAX_PLAYERS

----------------------------------------------------------------------------
(* C7 *)

RosterSizeError(p) ==
    resp[p].error.msg \in {"Minimum 5 player required", "Maximum 10 players allowed"}

\* C7: a submission carrying fewer than 5 (none included) or more than 10
\* complete players fails with the roster-size error, persists nothing, and
\* no file it stored is left in the store (but for rejected deletes).  The
\* submissions whose upload was rejected are left aside.
C7_RosterSizeRejected ==
    \A p \in Slots :
        (/\ Done(p) /\ req[p].required /\ req[p].emergencyContact
         /\ (RosterSize(req[p]) < MIN_PLAYERS \/ RosterSize(req[p]) > MAX_PLAYERS)
         /\ \A i \in 1..RosterSize(req[p]) :
               CompleteGroup(req[p].players[i]) /\ i \in req[p].files
         /\ ~UploadFailed(p))
        => /\ Failed(p)
           /\ RosterSizeError(p)
           /\ ~Persisted(p)
           /\ log[p].stored \cap cloud = log[p].deleteFailed

----------------------------------------------------------------------------
(* C8 *)

PhotoError(p, k) == resp[p].error = PlayerError(k, "ID photo is required")

\* Player k is the first player of the request without an uploaded photo.
FirstWithoutPhoto(r, k) ==
    /\ k \in 1..RosterSize(r)
    /\ k \notin r.files
    /\ \A i \in 1..(k - 1) : i \in r.files

\* The images of players 1..k-1 of the attempt on slot p.
PhotosBefore(p, k) == {PublicId(team[p].teamId, i) : i \in 1..(k - 1)}

\* C8 as stated: in the high-school tier the build fails with the missing
\* photo error naming the first player without a photo, nothing is persisted
\* and the photos stored for the players before are gone from the store.
C8_MissingPhotoRejected ==
    \A p \in Slots : \A k \in 1..(MAX_PLAYERS + 1) :
        (/\ Done(p) /\ req[p].required /\ req[p].emergencyContact
         /\ req[p].tier = "high_school"
         /\ FirstWithoutPhoto(req[p], k)
         /\ \A i \in 1..k : CompleteGroup(req[p].players[i])
         /\ ~UploadFailed(p))
        => /\ PhotoError(p, k)
           /\ ~Persisted(p)
           /\ log[p].stored = PhotosBefore(p, k)
           /\ log[p].stored \cap cloud = {}

\* C8 amended: ... the photos stored for the players before have all been
\* handed to a delete call before the error is returned, and are gone from
\* the store unless that delete call was rejected.  (When the upload of an
\* earlier player is rejected the build fails with the upload error for that
\* player instead.)
C8_MissingPhotoRolledBack ==
    \A p \in Slots : \A k \in 1..(MAX_PLAYERS + 1) :
        (/\ Done(p) /\ req[p].required /\ req[p].emergencyContact
         /\ req[p].tier = "high_school"
         /\ FirstWithoutPhoto(req[p], k)
         /\ \A i \in 1..k : CompleteGroup(req[p].players[i]))
        => /\ Failed(p)
           /\ ~Persisted(p)
           /\ RolledBack(p)
           /\ IF UploadFailed(p)
              THEN resp[p].error.player < k
              ELSE PhotoError(p, k) /\ log[p].stored = PhotosBefore(p, k)

\* The fifth of five players has no photo: refused, and the four photos
\* stored before are deleted.
C8_Witness ==
    /\ Failed(SeqSlot)
    /\ req[SeqSlot].tier = "high_school"
    /\ FirstWithoutPhoto(req[SeqSlot], MIN_PLAYERS)
    /\ PhotoError(SeqSlot, MIN_PLAYERS)
    /\ Cardinality(log[SeqSlot].deleteCalled) = MIN_PLAYERS - 1
    /\ log[SeqSlot].stored \cap cloud = {}

----------------------------------------------------------------------------
(* C9 *)

\* C9: once team.save() has succeeded the Team stays in the repository, no
\* failure response is sent, and the response carries the teamId, whatever
\* the outcome of the two emails.
C9_SavedMeansSuccess ==
    \A p \in Slots :
        log[p].saved
        => /\ Persisted(p)
           /\ (Done(p) => resp[p].success /\ resp[p].teamId = team[p].teamId)
           /\ (~Done(p) => resp[p] = NoResponse)

\* Both emails failed and the response is the success response.
C9_Witness ==
    /\ Done(SeqSlot) /\ log[SeqSlot].saved
    /\ log[SeqSlot].coachMail = "failed"
    /\ log[SeqSlot].adminMail = "failed"
    /\ resp[SeqSlot].success
    /\ Persisted(SeqSlot)

----------------------------------------------------------------------------
(* C10 *)

\* C10: a submission with an unknown tier is refused with the invalid-tier
\* error before a Team is built: no fee is computed, nothing is persisted.
C10_UnknownTierRejected ==
    \A p \in Slots :
        (req[p] # NoRequest /\ req[p].tier \notin Tiers)
        => /\ log[p].registrationFee = 0
           /\ ~log[p].constructed
           /\ ~log[p].saved
           /\ (Done(p) => Failed(p) /\ resp[p].error.msg = "Invalid tier")

----------------------------------------------------------------------------
(* C11 *)

\* The persisted Team of slot p holds a null photo reference for exactly the
\* players submitted without a photo.
NullPhotoWhereNoFile(p) ==
    \E t \in teams :
        /\ t.teamId = resp[p].teamId
        /\ Len(t.players) = RosterSize(req[p])
        /\ \A i \in 1..Len(t.players) :
              (t.players[i].idPhotoUrl = Null) = (i \notin req[p].files)

\* C11: for a tier other than high_school a valid submission is accepted
\* whether or not its players come with a photo, and the players without one
\* are stored with a null photo reference (submissions whose upload or save
\* was rejected by the collaborator left aside).
C11_PhotoOptional ==
    \A p \in Slots :
        (/\ Done(p) /\ ValidSubmission(req[p])
         /\ req[p].tier # "high_school"
         /\ log[p].existingTeam # "found"
         /\ ~UploadFailed(p) /\ ~SaveFailed(p))
        => /\ resp[p].success
           /\ NullPhotoWhereNoFile(p)

----------------------------------------------------------------------------
(* C12 *)

\* The fee and the reference id of the record a resolver call was given.
FeeOf(c) ==
    IF c.fn = "getPaymentInstructions" THEN c.arg.registrationFee ELSE c.arg.amount
ReferenceOf(c) ==
    IF c.fn = "getPaymentInstructions" THEN c.arg.teamId ELSE c.arg.sponsorId

PaymentCalls ==
    {i \in 1..Len(calls) :
        calls[i].fn \in {"getPaymentInstructions", "sponsorGetPaymentInstructions"}}

\* C12: for check, zelle and venmo the resolvers return an object with a
\* title, a text and details holding the fee and the reference id; for every
\* other payment method they return null.
C12_InstructionsForManualMethods ==
    \A i \in PaymentCalls :
        LET c == calls[i] IN
        IF c.arg.paymentMethod \in {"check", "zelle", "venmo"}
        THEN /\ c.result.kind = "object"
             /\ c.result.title # "" /\ c.result.text # ""
             /\ toLocaleString(FeeOf(c)) \in Range(c.result.details)
             /\ ToString(ReferenceOf(c)) \in Range(c.result.details)
        ELSE c.result = NoInstructions

----------------------------------------------------------------------------
(* C13 *)

TeamPaymentCalls == {i \in PaymentCalls : calls[i].fn = "getPaymentInstructions"}

----------------------------------------------------------------------------
(* C14 *)

AgeCalls == {i \in 1..Len(calls) : calls[i].fn = "calculateAge"}

\* (month, day) as one number, so that calendar order is numeric order.
MonthDay(date) == date[2] * 100 + date[3]

\* The day after a date of the generated inputs (none of them ends a month).
NextDay(date) == <<date[1], date[2], date[3] + 1>>

----------------------------------------------------------------------------
(* C15 *)

\* C15: in the local-disk variant, once a failure response is out and the
\* request's unlink calls have settled, no file written for the request is
\* left on disk (but for files whose unlink call was rejected).
C15_LocalNoFileLeft ==
    \A p \in Slots :
        (Failed(p) /\ log[p].unlinking = {})
        => log[p].stored \cap disk \subseteq log[p].deleteFailed

----------------------------------------------------------------------------
(* C16 *)

\* C16: a request refused with the duplicate error has stored no file,
\* deleted none, written no Team and sent no notification.
C16_DuplicateNoSideEffects ==
    \A p \in Slots :
        (Done(p) /\ DuplicateError(p))
        => /\ log[p].stored = {}
           /\ log[p].deleteCalled = {}
           /\ ~log[p].saved
           /\ ~Persisted(p)
           /\ log[p].coachMail = "none" /\ log[p].adminMail = "none"

----------------------------------------------------------------------------
(* C17 *)

\* C17: once the Team is persisted the success response is eventually sent,
\* even when a notification send never completes.
C17_ResponseAfterSave ==
    log[SeqSlot].saved ~> (Done(SeqSlot) /\ resp[SeqSlot].success)

----------------------------------------------------------------------------
(* C18 *)

\* C18: when a failure response is out, no delete operation of the request's
\* rollback is still under way.
C18_RollbackSettled ==
    \A p \in Slots : Failed(p) => log[p].unlinking = {}

----------------------------------------------------------------------------
(* C19 *)

SaveError ==
    Error("Failed to save registration. Please try again or contact support.")

\* The failure the handler met on slot p, cleanup left aside: the roster
\* build's error, the duplicate, the age check, or the rejected save.
OriginalFailure(p) ==
    IF ~playersData[p].success THEN Failure(400, playersData[p].error)
    ELSE IF log[p].existingTeam = "found"
    THEN Failure(400, Error("A team with this name and coach email already exists"))
    ELSE IF ~validatePlayerAgesForTier(team[p])
    THEN Failure(400, Error("Player ages must be within the tier age range"))
    ELSE Failure(500, SaveError)

\* C19: when a delete call of a rollback is rejected, every stored image of
\* the attempt has still been handed to a delete call, all the others are
\* gone from the store, and the response is the failure that triggered the
\* rollback.
C19_CleanupFailureContained ==
    \A p \in Slots :
        (Failed(p) /\ log[p].deleteFailed # {})
        => /\ log[p].stored \subseteq log[p].deleteCalled
           /\ log[p].stored \cap Store = log[p].deleteFailed
           /\ resp[p] = OriginalFailure(p)

\* The delete of one of five images was rejected during the rollback of an
\* age failure: the four others are gone and the age error is returned.
C19_Witness ==
    /\ Failed(SeqSlot) /\ AgeError(SeqSlot)
    /\ Cardinality(log[SeqSlot].stored) = MIN_PLAYERS
    /\ Cardinality(log[SeqSlot].deleteFailed) = 1
    /\ Cardinality(log[SeqSlot].stored \cap cloud) = 1

----------------------------------------------------------------------------
(* C20 *)

\* The Upload Store rejected the upload of a photo of the request on slot p.
UploadRejected(p) == playersData[p].error.msg = "Failed to upload ID photo"

\* team.save() was issued for the request on slot p and rejected.
SaveRejected(p) ==
    /\ Done(p) /\ playersData[p].success /\ log[p].constructed
    /\ validatePlayerAgesForTier(team[p]) /\ ~log[p].saved

\* C20: a rejected upload and a rejected save are both answered with the
\* generic 5xx "try again or contact support" response, and no other failure
\* is answered with it.
C20_TransientClass ==
    \A p \in Slots :
        Failed(p) =>
            ((UploadRejected(p) \/ SaveRejected(p))
             <=> (resp[p].status >= 500 /\ resp[p].error = SaveError))

----------------------------------------------------------------------------
(* C21 *)

\* The request on slot p passes the duplicate check in this step.
PassesCheck(p) ==
    log[p].existingTeam = "unchecked" /\ log'[p].existingTeam = "none"

\* Both slots hold saved requests for one (coachEmail, teamName).
BothSaved ==
    /\ log["r1"].saved /\ log["r2"].saved
    /\ toLowerCase(req["r1"].coachEmail) = toLowerCase(req["r2"].coachEmail)
    /\ req["r1"].teamName = req["r2"].teamName

\* C21: a request passes the duplicate check exactly while no non-terminal
\* Team of its pair is in the repository; two concurrent requests for one
\* pair that are both saved have both passed it (each findOne ran before the
\* other's save), and the repository then holds two non-terminal Teams of
\* the pair.  The witness shows the interleaving exists.
C21_BothPassAndPersist ==
    /\ [][\A p \in Slots : PassesCheck(p) => NonTerminalOfPair(req[p]) = {}]_vars
    /\ [](BothSaved =>
            /\ log["r1"].existingTeam = "none" /\ log["r2"].existingTeam = "none"
            /\ team["r1"].teamId # team["r2"].teamId
            /\ Cardinality(NonTerminalOfPair(req["r1"])) = 2)

\* Two requests for the Falcons of one coach, the email in different case,
\* are both saved: two pending Teams hold the pair.
C21_Witness ==
    /\ BothSaved
    /\ req["r1"].coachEmail # req["r2"].coachEmail
    /\ Cardinality(NonTerminalOfPair(req["r1"])) = 2
    /\ \A t \in teams : t.registrationStatus = "pending"

----------------------------------------------------------------------------
(* C22 *)

\* The request carries a player whose dateOfBirth is non-empty and no date.
MalformedDob(r) ==
    \E i \in 1..RosterSize(r) :
        /\ r.players[i].present
        /\ r.players[i].dateOfBirth # <<>>
        /\ ParseDate(r.players[i].dateOfBirth) = InvalidDate

\* C22: a submission with a non-empty, unparseable dateOfBirth is rejected
\* as a validation error before calculatePlayerAges is invoked and before a
\* Team is constructed.
C22_MalformedDobRejectedUpstream ==
    \A p \in Slots :
        MalformedDob(req[p])
        => /\ ~log[p].constructed
           /\ ~log[p].agesComputed
           /\ (Done(p) => Failed(p) /\ resp[p].status = 400)

----------------------------------------------------------------------------
(* C26 *)

\* The indices at which the request carries a players[i] group.
SubmittedGroups(r) == {i \in 1..Len(r.players) : r.players[i].present}

\* The roster-size error for too few players, in either variant's wording.
TooFewError(p) ==
    resp[p].error.msg \in {"Minimum 5 player required", "Minimum 5 players required"}

\* C26: a successful registration persists one player for every submitted
\* group, and the roster-size error is returned only when the number of
\* submitted groups is outside [5, 10].
C26_EveryGroupCounted ==
    \A p \in Slots :
        /\ (Done(p) /\ resp[p].success)
           => \E t \in teams :
                 /\ t.teamId = team[p].teamId
                 /\ Len(t.players) = Cardinality(SubmittedGroups(req[p]))
        /\ (Done(p) /\ TooFewError(p))
           => Cardinality(SubmittedGroups(req[p])) < MIN_PLAYERS

----------------------------------------------------------------------------
(* C23 *)

\* What the contract fixes of a persisted Team.
Contract(t) ==
    [tier |-> t.tier, registrationFee |-> t.registrationFee,
     paymentStatus |-> t.paymentStatus,
     players |-> [i \in 1..Len(t.players) |->
                    [playerName        |-> t.players[i].playerName,
                     dateOfBirth       |-> t.players[i].dateOfBirth,
                     ageAtRegistration |-> t.players[i].ageAtRegistration]]]

\* Both variants have answered the same request, neither was refused as a
\* duplicate of the other's Team, and no upload or save was rejected.
SameRequestAnswered ==
    /\ Done("r1") /\ Done("r2")
    /\ req["r1"] = req["r2"]
    /\ log["r1"].existingTeam # "found" /\ log["r2"].existingTeam # "found"
    /\ resp["r1"].status # 500 /\ resp["r2"].status # 500
    /\ ~UploadFailed("r1")

\* C23: for the same request over the same repository contents the two
\* variants return the same outcome with the same error message, and on
\* success persist Teams with the same roster, tier, fee and paymentStatus.
C23_SameContract ==
    SameRequestAnswered
    => /\ resp["r1"].success = resp["r2"].success
       /\ resp["r1"].error = resp["r2"].error
       /\ resp["r1"].success
          => \E t, u \in teams : /\ t.teamId = team["r1"].teamId
                                 /\ u.teamId = team["r2"].teamId
                                 /\ Contract(t) = Contract(u)

----------------------------------------------------------------------------
(* C24 *)

TerminalPaymentStatuses == {"completed", "failed", "cancelled"}

\* The sponsor with this identifier after the step.
SponsorAfter(sponsorId) == {sq \in sponsors' : sq.sponsorId = sponsorId}

\* C24: completed, failed and cancelled are terminal: whatever webhook
\* events arrive, in any order and however often, a sponsor that has reached
\* one of the three never changes its paymentStatus again.
C24_TerminalStatusKept ==
    [][\A sp \in sponsors :
           sp.paymentStatus \in TerminalPaymentStatuses
               => \A sq \in SponsorAfter(sp.sponsorId) :
                      sq.paymentStatus = sp.paymentStatus]_vars

----------------------------------------------------------------------------
(* C25 *)

\* C25: once team.save() has succeeded, the request hands none of the
\* persisted Team's images to cleanupCloudinaryImages, and every image a
\* persisted Team references is in the store.
C25_PersistedImagesKept ==
    /\ \A p \in Slots :
          log[p].saved => /\ TeamImages(team[p]) \cap log[p].deleteCalled = {}
                          /\ TeamImages(team[p]) \subseteq cloud
    /\ \A t \in teams : TeamImages(t) \subseteq cloud

\* A request has finished after its Team was persisted with a photo for each
\* of its players and the admin notification failed: the photos are all in
\* the store and nothing was handed to the cleanup.
C25_Witness ==
    \E p \in Slots :
        /\ Done(p) /\ log[p].saved /\ Persisted(p) /\ resp[p].success
        /\ log[p].adminMail = "failed"
        /\ Cardinality(TeamImages(team[p])) = MIN_PLAYERS
        /\ TeamImages(team[p]) \subseteq cloud
        /\ log[p].deleteCalled = {}

----------------------------------------------------------------------------
(* C27 *)

\* The input names of the cards carry players[0] .. players[playerCount-1]
\* in card order.
ContiguousIndices ==
    \A i \in 1..Len(playersContainer) :
        /\ playersContainer[i].index = i - 1
        /\ playersContainer[i].playerNumber = i

CardsKept ==
    /\ playerCount' = playerCount
    /\ playersContainer' = playersContainer

\* C27: after init and any sequence of addPlayer, removePlayer and resetForm
\* the counter is within [5, 10], equals the number of cards, and the cards'
\* input indices are contiguous from 0 in card order; addPlayer at 10 and
\* removePlayer at 5 leave the counter and the cards as they are.
C27_PageRoster ==
    /\ [](/\ playerCount >= MIN_PLAYERS /\ playerCount <= MAX_PLAYERS
          /\ playerCount = Len(playersContainer)
          /\ ContiguousIndices)
    /\ [][(addPlayerClick /\ playerCount = MAX_PLAYERS) => CardsKept]_vars
    /\ [][(removePlayerClick /\ playerCount = MIN_PLAYERS) => CardsKept]_vars

\* Seven cards remain after the third card of a longer roster was removed:
\* the fourth card created now stands third and is named players[2], and an
\* addPlayer at ten cards was refused before.
C27_Witness ==
    /\ playerCount = 7 /\ Len(playersContainer) = 7
    /\ playersContainer[3].node = 4
    /\ playersContainer[3].index = 2
    /\ errorModalText = "Maximum 10 players allowed per team"

----------------------------------------------------------------------------
(* C28 *)

\* req.body of the delivery h.
HookPayload(h) == WebhookBody(h.event, h.metadata, h.sponsorId)

\* The zeffy-signature header of the delivery is the HMAC-SHA256 of its
\* payload under the configured webhook secret; with no secret configured
\* there is no such HMAC.
SignatureMatches(h) ==
    /\ h.secret # Unset
    /\ h.signature = createHmac(h.secret, stringify(HookPayload(h)))

HandledEvents == {"payment.completed", "payment.failed", "payment.cancelled"}

\* A step of handleZeffyWebhook: a delivery is answered while the sponsor
\* request being handled stays where it is.
WebhookStep == hook'.status # 0 /\ sreq' = sreq

\* C28: a delivery whose signature is missing or does not match is answered
\* 401 and leaves every sponsor as it is, and an event other than
\* payment.completed, payment.failed and payment.cancelled changes no
\* sponsor.
C28_SignedOnly ==
    [][WebhookStep =>
          /\ ~SignatureMatches(hook') => hook'.status = 401 /\ sponsors' = sponsors
          /\ hook'.event \notin HandledEvents => sponsors' = sponsors]_vars

\* C28, amended: a delivery whose signature is missing or does not match
\* leaves every sponsor as it is and is answered 401, or 500 when no webhook
\* secret is configured; a matching delivery is answered 200; an event
\* other than the three handled ones changes no sponsor.
C28_SignedOnlyFailClosed ==
    [][WebhookStep =>
          /\ ~SignatureMatches(hook')
                => /\ hook'.status = IF hook'.secret = Unset THEN 500 ELSE 401
                   /\ sponsors' = sponsors
          /\ SignatureMatches(hook') => hook'.status = 200
          /\ hook'.event \notin HandledEvents => sponsors' = sponsors]_vars

\* A payment.completed delivery for sponsor 1 signed under another key was
\* answered 401 and the sponsor is still in processing.
C28_Witness ==
    /\ hook.status = 401
    /\ hook.event = "payment.completed" /\ hook.metadata /\ hook.sponsorId = 1
    /\ hook.signature = createHmac("guess", stringify(HookPayload(hook)))
    /\ \E sp \in sponsors : sp.sponsorId = 1 /\ sp.paymentStatus = "processing"

----------------------------------------------------------------------------
(* C29 *)

SessionRequestFailed ==
    /\ sreq.handler = "createZeffyPaymentSession"
    /\ sreq.pc = "done"
    /\ ~sreq.resp.success

\* C29: createZeffyPaymentSession is all-or-nothing: when it has answered
\* with a failure the repository holds no Sponsor the request created, and,
\* no session request being under way, a Sponsor in processing carries the
\* id of the session that was opened for it.
C29_SessionAllOrNothing ==
    /\ SessionRequestFailed
          => \A sp \in sponsors : sp.sponsorId # sreq.sponsor.sponsorId
    /\ sreq.pc \in {"idle", "done"}
          => \A sp \in sponsors :
                 sp.paymentStatus = "processing" => sp.zeffySessionId # 0

----------------------------------------------------------------------------
(* C30 *)

\* C30: every persisted Sponsor has a known tier and the amount fixed for
\* that tier, whichever endpoint created it.
C30_TierAmount ==
    \A sp \in sponsors :
        /\ sp.tier \in DOMAIN tierAmounts
        /\ sp.amount = tierAmounts[sp.tier]

====
